---- MODULE Spec2Model ----
(***************************************************************************)
(* Workflow model of the CDRR engine back end: the application table       *)
(* (main_db), its one-to-one delegation table (application_delegation) and *)
(* the HTTP handlers that create, list, trash, deck and evaluate           *)
(* applications.                                                           *)
(*                                                                         *)
(* Conventions.                                                            *)
(*  - A Python str is a tuple of one-character strings, so that strip()    *)
(*    and strptime() are computed character by character.  Python None /   *)
(*    SQL NULL in a text column is the value None below, which differs     *)
(*    from every str.                                                      *)
(*  - A datetime is <<"now", k>> (datetime.now() read at clock value k) or *)
(*    <<"date", y, m, d>> (midnight of a parsed date); a NULL datetime is  *)
(*    NoDate.                                                              *)
(*  - Every handler runs as one atomic step; the clock advances by one     *)
(*    with every request served, and MaxTime caps the number of requests.  *)
(*  - The database raises only where an input says so (the transaction of *)
(*    a bulk evaluation, the delegation insert of one row of an Excel      *)
(*    import); elsewhere queries and commits succeed.                      *)
(*  - String comparison in SQL filters is exact (the collation is not part *)
(*    of the repository); SQL's three-valued logic for NULL is modelled.   *)
(***************************************************************************)
EXTENDS Integers, Sequences, FiniteSets, TLC

(* ------------------------------ bounds -------------------------------- *)
\* number of requests served in one behaviour (also the last clock value)
MaxTime == 3
\* number of application rows ever created (DB_ID is 1..MaxApps)
MaxApps == 2
\* number of log rows ever created (id is 1..MaxLogs)
MaxLogs == 2
\* an id that no application ever gets
NoSuchId == MaxApps + 1

(* ------------------------------ strings ------------------------------- *)
None == << "<None>" >>
S_EMPTY == << >>
S_SPACE == << " " >>
S_NA == << "N", "/", "A" >>
S_NA_PADDED == << " ", "N", "/", "A", " " >>
S_ALICE == << "a", "l", "i" >>
S_BOB == << "b", "o", "b" >>
S_CAROL == << "c", "a", "r" >>
S_DK1 == << "d", "k", "1" >>
S_DK2 == << "d", "k", "2" >>
S_FOR_EVAL == << "F", "E" >>
S_RETURNED == << "R", "T" >>
S_APPROVED == << "O", "K" >>
S_APPROVED_PADDED == << " ", "O", "K", " " >>
S_DENIED == << "N", "O" >>
S_REM == << "r", "e", "m" >>
S_DATE_OK == << "2", "0", "2", "4", "-", "0", "2", "-", "2", "9" >>
S_DATE_BAD == << "2", "9", "/", "0", "2", "/", "2", "4" >>
S_DATE_NOSUCH == << "2", "0", "2", "3", "-", "0", "2", "-", "2", "9" >>
S_DELETED == << "d", "e", "l", "e", "t", "e", "d" >>
S_PENDING == << "P", "D" >>
S_CAT == << "D", "T" >>
S_SYSTEM == << "s", "y", "s" >>

NoDate == << >>

\* Python truthiness of an Optional[str]
truthy(s) == s /= None /\ s /= S_EMPTY

isspace(c) == c \in {" ", "\t", "\n", "\r"}

RECURSIVE lstrip(_)
lstrip(s) ==
    IF s = << >> THEN s
    ELSE IF isspace(Head(s)) THEN lstrip(Tail(s)) ELSE s

RECURSIVE rstrip(_)
rstrip(s) ==
    IF s = << >> THEN s
    ELSE IF isspace(s[Len(s)]) THEN rstrip(SubSeq(s, 1, Len(s) - 1)) ELSE s

\* str.strip()
strip(s) == rstrip(lstrip(s))

(* ------------------------------- dates -------------------------------- *)
DigitChars == << "0", "1", "2", "3", "4", "5", "6", "7", "8", "9" >>

isdigit(c) == \E i \in 1..Len(DigitChars) : DigitChars[i] = c

DigitVal(c) == (CHOOSE i \in 1..Len(DigitChars) : DigitChars[i] = c) - 1

AllDigits(s) == \A i \in 1..Len(s) : isdigit(s[i])

RECURSIVE NumVal(_)
NumVal(s) ==
    IF s = << >> THEN 0
    ELSE NumVal(SubSeq(s, 1, Len(s) - 1)) * 10 + DigitVal(s[Len(s)])

IsLeap(y) == (y % 4 = 0 /\ y % 100 /= 0) \/ y % 400 = 0

DaysIn(y, m) ==
    IF m = 2 THEN (IF IsLeap(y) THEN 29 ELSE 28)
    ELSE IF m \in {4, 6, 9, 11} THEN 30 ELSE 31

\* positions of "-" in s
Dashes(s) == {i \in 1..Len(s) : s[i] = "-"}

\* datetime.strptime(s, "%Y-%m-%d"): ok = FALSE stands for ValueError
strptime(s) ==
    LET bad == [ok |-> FALSE, value |-> NoDate]
    IN  IF Cardinality(Dashes(s)) /= 2 THEN bad
        ELSE LET d1 == CHOOSE i \in Dashes(s) : \A j \in Dashes(s) : i <= j
                 d2 == CHOOSE i \in Dashes(s) : \A j \in Dashes(s) : j <= i
                 ys == SubSeq(s, 1, d1 - 1)
                 ms == SubSeq(s, d1 + 1, d2 - 1)
                 ds == SubSeq(s, d2 + 1, Len(s))
             IN  IF /\ Len(ys) = 4 /\ AllDigits(ys)
                    /\ Len(ms) \in {1, 2} /\ AllDigits(ms)
                    /\ Len(ds) \in {1, 2} /\ AllDigits(ds)
                    /\ NumVal(ys) >= 1
                    /\ NumVal(ms) \in 1..12
                    /\ NumVal(ds) \in 1..DaysIn(NumVal(ys), NumVal(ms))
                 THEN [ok |-> TRUE,
                       value |-> << "date", NumVal(ys), NumVal(ms), NumVal(ds) >>]
                 ELSE bad

datetime_now(t) == << "now", t >>

(* --------------------------- table rows ------------------------------- *)
\* text columns of application_delegation, stage by stage
DelegationTextColumns ==
    {"DB_DECKER", "DB_DECKER_DECISION", "DB_DECKER_REMARKS",
     "DB_EVALUATOR", "DB_EVAL_DECISION", "DB_EVAL_REMARKS",
     "DB_CHECKER", "DB_CHECKER_DECISION", "DB_CHECKER_REMARKS",
     "DB_SUPERVISOR", "DB_SUPERVISOR_DECISION", "DB_SUPERVISOR_REMARKS",
     "DB_QA", "DB_QA_DECISION", "DB_QA_REMARKS",
     "DB_DIRECTOR", "DB_DIRECTOR_DECISION", "DB_DIRECTOR_REMARKS",
     "DB_RELEASING_OFFICER", "DB_RELEASING_OFFICER_DECISION",
     "DB_RELEASING_OFFICER_REMARKS"}

\* DateTime columns of application_delegation
DelegationDateColumns ==
    {"DB_DATE_DECKED_END", "DB_DATE_EVAL_END", "DB_DATE_CHECKER_END",
     "DB_DATE_SUPERVISOR_END", "DB_DATE_QA_END", "DB_DATE_DIRECTOR_END",
     "DB_RELEASING_OFFICER_END"}

DelegationColumns == DelegationTextColumns \cup DelegationDateColumns

\* a row of application_delegation with every nullable column NULL
ApplicationDelegation ==
    [c \in DelegationColumns |->
        IF c \in DelegationDateColumns THEN NoDate ELSE None]

\* the columns of main_db the handlers read or write (the other descriptive
\* columns behave like DB_EST_CAT and DB_APP_STATUS)
MainTextColumns ==
    {"DB_EST_CAT", "DB_APP_STATUS", "DB_TRASH", "DB_USER_UPLOADER"}

MainDateColumns == {"DB_TRASH_DATE_ENCODED", "DB_DATE_EXCEL_UPLOAD"}

MainColumns == MainTextColumns \cup MainDateColumns

\* a row of main_db with every nullable column NULL
MainDB ==
    [c \in MainColumns |-> IF c \in MainDateColumns THEN NoDate ELSE None]

\* setattr(row, field, value) for every field of a dict
SetAttrs(row, data) ==
    [c \in DOMAIN row |-> IF c \in DOMAIN data THEN data[c] ELSE row[c]]

\* a table with one more row / with one row removed
Insert(table, key, row) == table @@ (key :> row)

Remove(table, key) == [k \in (DOMAIN table) \ {key} |-> table[k]]

(* ------------------------------ state --------------------------------- *)
VARIABLES
    main,      \* main_db: DB_ID -> row
    deleg,     \* application_delegation: DB_MAIN_ID -> row (unique, FK)
    nextId,    \* AUTO_INCREMENT of main_db.DB_ID
    now,       \* the clock; one tick per request
    last,      \* the request served last and its response
    logs,      \* application_logs: id -> row (FK main_db_id)
    nextLogId, \* AUTO_INCREMENT of application_logs.id
    sessions   \* the requests that have read and not yet committed

vars == << main, deleg, nextId, now, last, logs, nextLogId, sessions >>

\* a response record; fields an endpoint does not produce keep these
\* defaults.  `before` is the main_db row as the handler read it, `at` the
\* time of the call, `throws` whether the database raised during the call
\* and, for an evaluation, `previous_evaluator` the DB_EVALUATOR the handler
\* read (none of these is sent to the client)
NoResponse ==
    [op |-> "none", id |-> 0, ids |-> << >>, body |-> << >>, status |-> 0,
     success |-> FALSE, message |-> "", updated_count |-> 0,
     failed_count |-> 0, details |-> << >>, already_decked |-> FALSE,
     previous_evaluator |-> None, before |-> MainDB, throws |-> FALSE,
     at |-> 0]

\* the database sessions of requests in flight (get_db opens one per
\* request): what the request has read and what it has assigned, until its
\* commit; `raced` are the columns another request has committed to the same
\* record since this one read it
Sessions == {"A", "B"}

NoSession ==
    [op |-> "none", id |-> 0, body |-> << >>, loaded |-> << >>,
     fields |-> << >>, raced |-> {}, at |-> 0]

NoSessions == [s \in Sessions |-> NoSession]

Init ==
    /\ main = << >>
    /\ deleg = << >>
    /\ nextId = 1
    /\ now = 0
    /\ last = NoResponse
    /\ logs = << >>
    /\ nextLogId = 1
    /\ sessions = NoSessions

\* one request is served per clock tick
Serve == now < MaxTime /\ now' = now + 1

(* --------------------------- request schemas -------------------------- *)
\* DeckApplicationBase: decker, evaluator and deckerDecision are required
\* str (any str, also an empty one); the other two fields are optional
DeckApplicationBase(body) ==
    /\ body.decker /= None
    /\ body.evaluator /= None
    /\ body.deckerDecision /= None

MaxEvaluatorLen == 100
MaxDecisionLen == 50
MaxRemarksLen == 1000
MaxCheckerLen == 100

\* a validate_date_format that accepts every string
validate_date_format_any(v) == TRUE

\* EvaluationBase.validate_date_format
validate_date_format(v) == v /= None => strptime(v).ok

\* EvaluationBase.validate_decision: rejects a blank decision
validate_decision(v) == truthy(v) /\ truthy(strip(v))

\* EvaluationBase: the field constraints and the two field validators
EvaluationBase(body) ==
    /\ body.evaluator /= None
    /\ Len(body.evaluator) >= 1 /\ Len(body.evaluator) <= MaxEvaluatorLen
    /\ body.eval_decision /= None
    /\ Len(body.eval_decision) >= 1
    /\ Len(body.eval_decision) <= MaxDecisionLen
    /\ validate_decision(body.eval_decision)
    /\ body.eval_remarks /= None => Len(body.eval_remarks) <= MaxRemarksLen
    /\ validate_date_format(body.date_eval_end)
    /\ body.checker /= None => Len(body.checker) <= MaxCheckerLen

\* the request object the handler receives: validate_decision returns
\* v.strip(), so eval_decision arrives stripped
EvaluationRequest(body) ==
    [body EXCEPT !.eval_decision = strip(body.eval_decision)]

\* validate_record_ids without its duplicate check
validate_record_ids_no_unique(v) ==
    /\ Len(v) >= 1
    /\ \A i \in 1..Len(v) : v[i] > 0

\* BulkEvaluationRequest.validate_record_ids (with min_length=1)
validate_record_ids(v) ==
    /\ Len(v) >= 1
    /\ \A i, j \in 1..Len(v) : i /= j => v[i] /= v[j]
    /\ \A i \in 1..Len(v) : v[i] > 0

\* the most ids the bulk deck route takes
MaxBulkDeck == 100

\* a bulk deck without the limit on the number of ids
TooManyToDeck_no_limit(ids) == FALSE

\* len(bulk_data.record_ids) > 100
TooManyToDeck(ids) == Len(ids) > MaxBulkDeck

(* ------------------------------ deck CRUD ----------------------------- *)
\* DeckCRUD.check_if_already_decked
check_if_already_decked(record) ==
    /\ truthy(record.DB_EVALUATOR)
    /\ truthy(strip(record.DB_EVALUATOR))
    /\ record.DB_EVALUATOR /= S_NA

\* the end date a deck stores: the parsed date, or now when the string is
\* absent, empty or no YYYY-MM-DD date
DeckedEnd(dateDeckedEnd, t) ==
    IF truthy(dateDeckedEnd)
    THEN (IF strptime(dateDeckedEnd).ok
          THEN strptime(dateDeckedEnd).value
          ELSE datetime_now(t))
    ELSE datetime_now(t)

\* a deck that also resets the evaluation decision
DeckFields_resets_evaluation(record, deck_data, t) ==
    [record EXCEPT
        !.DB_EVALUATOR = deck_data.evaluator,
        !.DB_DECKER = deck_data.decker,
        !.DB_DECKER_DECISION = deck_data.deckerDecision,
        !.DB_DECKER_REMARKS =
            IF truthy(deck_data.deckerRemarks)
            THEN deck_data.deckerRemarks ELSE S_EMPTY,
        !.DB_DATE_DECKED_END = DeckedEnd(deck_data.dateDeckedEnd, t),
        !.DB_EVAL_DECISION = None]

\* the column assignments of deck_single_application; DB_DATE_DECKED is no
\* column of the table, so that assignment is not stored
DeckFields(record, deck_data, t) ==
    [record EXCEPT
        !.DB_EVALUATOR = deck_data.evaluator,
        !.DB_DECKER = deck_data.decker,
        !.DB_DECKER_DECISION = deck_data.deckerDecision,
        !.DB_DECKER_REMARKS =
            IF truthy(deck_data.deckerRemarks)
            THEN deck_data.deckerRemarks ELSE S_EMPTY,
        !.DB_DATE_DECKED_END = DeckedEnd(deck_data.dateDeckedEnd, t)]

\* deck_single_application that creates a missing delegation row
deck_single_application_lazy_create(db, db_main_id, deck_data, t) ==
    [success |-> TRUE, message |-> "decked successfully",
     updated_count |-> 1, already_decked |-> FALSE,
     previous_evaluator |-> None,
     db |-> IF db_main_id \in DOMAIN db
            THEN [db EXCEPT ![db_main_id] =
                     DeckFields(db[db_main_id], deck_data, t)]
            ELSE Insert(db, db_main_id,
                        DeckFields(ApplicationDelegation, deck_data, t))]

\* DeckCRUD.deck_single_application: the result dict and the table after it
deck_single_application(db, db_main_id, deck_data, t) ==
    IF db_main_id \notin DOMAIN db
    THEN [success |-> FALSE, message |-> "not found", updated_count |-> 0,
          already_decked |-> FALSE, previous_evaluator |-> None, db |-> db]
    ELSE LET record == db[db_main_id]
             already_decked == check_if_already_decked(record)
         IN  [success |-> TRUE,
              message |-> "decked successfully",
              updated_count |-> 1,
              already_decked |-> already_decked,
              previous_evaluator |->
                  IF already_decked THEN record.DB_EVALUATOR ELSE None,
              db |-> [db EXCEPT
                         ![db_main_id] = DeckFields(record, deck_data, t)]]

\* the rows a query .filter(DB_MAIN_ID.in_(ids)) returns
RowsIn(db, ids) == {k \in DOMAIN db : \E i \in 1..Len(ids) : ids[i] = k}

\* every order in which the rows of a set can come back from a query that
\* has no ORDER BY
Orders(S) ==
    {o \in [1..Cardinality(S) -> S] :
        \A i, j \in 1..Cardinality(S) : i /= j => o[i] /= o[j]}

\* the details entry of one record of a bulk deck
BulkDeckDetail(record, id, bulk_data) ==
    [id |-> id, status |-> "success", evaluator |-> bulk_data.evaluator,
     previous_evaluator |->
         IF check_if_already_decked(record)
         THEN record.DB_EVALUATOR ELSE None]

\* a bulk deck that stores absent remarks as NULL
BulkDeckFields_null_remarks(record, bulk_data, t) ==
    [record EXCEPT
        !.DB_EVALUATOR = bulk_data.evaluator,
        !.DB_DECKER = bulk_data.decker,
        !.DB_DECKER_DECISION = bulk_data.deckerDecision,
        !.DB_DECKER_REMARKS = bulk_data.deckerRemarks,
        !.DB_DATE_DECKED_END = DeckedEnd(bulk_data.dateDeckedEnd, t)]

\* the column assignments in the loop of bulk_deck_applications (the
\* DB_DATE_DECKED assignment is not stored there either)
BulkDeckFields(record, bulk_data, t) ==
    [record EXCEPT
        !.DB_EVALUATOR = bulk_data.evaluator,
        !.DB_DECKER = bulk_data.decker,
        !.DB_DECKER_DECISION = bulk_data.deckerDecision,
        !.DB_DECKER_REMARKS =
            IF truthy(bulk_data.deckerRemarks)
            THEN bulk_data.deckerRemarks ELSE S_EMPTY,
        !.DB_DATE_DECKED_END =
            IF truthy(bulk_data.dateDeckedEnd)
            THEN (IF strptime(bulk_data.dateDeckedEnd).ok
                  THEN strptime(bulk_data.dateDeckedEnd).value
                  ELSE datetime_now(t))
            ELSE datetime_now(t)]

\* DeckCRUD.bulk_deck_applications, the found rows taken in the order `order`
bulk_deck_applications(db, bulk_data, order, t) ==
    IF bulk_data.record_ids = << >>
    THEN [success |-> FALSE, message |-> "No record IDs provided",
          updated_count |-> 0, failed_count |-> 0, details |-> << >>,
          db |-> db]
    ELSE IF RowsIn(db, bulk_data.record_ids) = {}
    THEN [success |-> FALSE, message |-> "No application records found",
          updated_count |-> 0, failed_count |-> Len(bulk_data.record_ids),
          details |-> << >>, db |-> db]
    ELSE [success |-> Len(order) > 0,
          message |-> "Successfully decked",
          updated_count |-> Len(order),
          failed_count |-> 0,
          details |->
              [i \in 1..Len(order) |->
                  BulkDeckDetail(db[order[i]], order[i], bulk_data)],
          db |-> [k \in DOMAIN db |->
                     IF k \in RowsIn(db, bulk_data.record_ids)
                     THEN BulkDeckFields(db[k], bulk_data, t) ELSE db[k]]]

(* --------------------------- evaluation CRUD -------------------------- *)
\* EvaluationCRUD.is_already_evaluated
is_already_evaluated(record) ==
    /\ truthy(record.DB_EVAL_DECISION)
    /\ truthy(strip(record.DB_EVAL_DECISION))

\* is_decked without its strip()
is_decked_no_strip(record) == truthy(record.DB_EVALUATOR)

\* EvaluationCRUD.is_decked
is_decked(record) ==
    /\ truthy(record.DB_EVALUATOR)
    /\ truthy(strip(record.DB_EVALUATOR))

\* EvaluationCRUD.parse_date
parse_date(date_str, t) ==
    IF truthy(date_str)
    THEN (IF strptime(date_str).ok
          THEN strptime(date_str).value
          ELSE datetime_now(t))
    ELSE datetime_now(t)

\* update_evaluation_fields that keeps the checker when none is given
update_evaluation_fields_keeps_checker(record, data, t) ==
    [record EXCEPT
        !.DB_EVALUATOR = data.evaluator,
        !.DB_EVAL_DECISION = data.eval_decision,
        !.DB_EVAL_REMARKS =
            IF truthy(data.eval_remarks) THEN data.eval_remarks ELSE S_EMPTY,
        !.DB_DATE_EVAL_END = parse_date(data.date_eval_end, t),
        !.DB_CHECKER =
            IF data.checker = None THEN record.DB_CHECKER ELSE data.checker]

\* EvaluationCRUD.update_evaluation_fields (bulk_evaluate repeats it inline)
update_evaluation_fields(record, data, t) ==
    [record EXCEPT
        !.DB_EVALUATOR = data.evaluator,
        !.DB_EVAL_DECISION = data.eval_decision,
        !.DB_EVAL_REMARKS =
            IF truthy(data.eval_remarks) THEN data.eval_remarks ELSE S_EMPTY,
        !.DB_DATE_EVAL_END = parse_date(data.date_eval_end, t),
        !.DB_CHECKER = data.checker]

\* EvaluationCRUD.evaluate_single
evaluate_single(db, db_main_id, data, t) ==
    IF db_main_id \notin DOMAIN db
    THEN [success |-> FALSE, message |-> "Record not found",
          updated_count |-> 0, db |-> db]
    ELSE IF ~is_decked(db[db_main_id])
    THEN [success |-> FALSE,
          message |->
              "Application is not yet decked (not assigned to evaluator)",
          updated_count |-> 0, db |-> db]
    ELSE [success |-> TRUE, message |-> "Application evaluated successfully",
          updated_count |-> 1,
          db |-> [db EXCEPT ![db_main_id] =
                     update_evaluation_fields(db[db_main_id], data, t)]]

\* the ids of a list, as a set
IdSet(ids) == {ids[i] : i \in 1..Len(ids)}

\* the details entry of one found record of a bulk evaluation
BulkEvaluationDetail(record, id) ==
    IF is_decked(record)
    THEN [id |-> id, status |-> "success", reason |-> "None"]
    ELSE [id |-> id, status |-> "failed",
          reason |-> "Application is not yet decked"]

\* a failed transaction that reports nothing per id
bulk_evaluate_failed_no_details(db, data) ==
    [success |-> FALSE, message |-> "Bulk evaluation failed",
     updated_count |-> 0, failed_count |-> Len(data.record_ids),
     details |-> << >>, db |-> db]

\* EvaluationCRUD.bulk_evaluate, its outer except branch: the session is
\* rolled back and every requested id is reported as failed
bulk_evaluate_failed(db, data) ==
    [success |-> FALSE, message |-> "Bulk evaluation failed",
     updated_count |-> 0, failed_count |-> Len(data.record_ids),
     details |-> [i \in 1..Len(data.record_ids) |->
                     [id |-> data.record_ids[i], status |-> "failed",
                      reason |-> "Transaction failed"]],
     db |-> db]

\* bulk_evaluate that passes over the ids that have no record
bulk_evaluate_skips_missing(db, data, missing, order, t) ==
    LET done == {k \in RowsIn(db, data.record_ids) : is_decked(db[k])}
    IN  [success |-> Cardinality(done) > 0,
         message |-> "Evaluated",
         updated_count |-> Cardinality(done),
         failed_count |-> Len(order) - Cardinality(done),
         details |-> [i \in 1..Len(order) |->
                         BulkEvaluationDetail(db[order[i]], order[i])],
         db |-> [k \in DOMAIN db |->
                    IF k \in done
                    THEN update_evaluation_fields(db[k], data, t)
                    ELSE db[k]]]

\* EvaluationCRUD.bulk_evaluate: the missing ids are reported in the order
\* `missing`, then the found rows are processed in the order `order`
bulk_evaluate(db, data, missing, order, t) ==
    LET found == [i \in 1..Len(order) |->
                     BulkEvaluationDetail(db[order[i]], order[i])]
        notfound == [i \in 1..Len(missing) |->
                        [id |-> missing[i], status |-> "failed",
                         reason |-> "Record not found"]]
        done == {k \in RowsIn(db, data.record_ids) : is_decked(db[k])}
    IN  [success |-> Cardinality(done) > 0,
         message |-> "Evaluated",
         updated_count |-> Cardinality(done),
         failed_count |->
             Len(missing) + (Len(order) - Cardinality(done)),
         details |-> notfound \o found,
         db |-> [k \in DOMAIN db |->
                    IF k \in done
                    THEN update_evaluation_fields(db[k], data, t)
                    ELSE db[k]]]

(* ------------------------------ main CRUD ----------------------------- *)
\* the decked / not_decked filter of get_main_db_records and of
\* get_main_db_summary: an inner join for decked, an outer join for
\* not_decked (a missing delegation row joins as NULL columns)
EvaluatorOf(dg, id) == IF id \in DOMAIN dg THEN dg[id].DB_EVALUATOR ELSE None

DeckedFilter(dg, id) ==
    /\ id \in DOMAIN dg
    /\ dg[id].DB_EVALUATOR /= None
    /\ dg[id].DB_EVALUATOR /= S_EMPTY
    /\ dg[id].DB_EVALUATOR /= S_NA

\* the not_decked filter over an inner join
NotDeckedFilter_inner_join(dg, id) ==
    /\ id \in DOMAIN dg
    /\ dg[id].DB_EVALUATOR \in {None, S_EMPTY, S_NA}

NotDeckedFilter(dg, id) ==
    \/ EvaluatorOf(dg, id) = None
    \/ EvaluatorOf(dg, id) = S_EMPTY
    \/ EvaluatorOf(dg, id) = S_NA

\* get_main_db_records: the ids of the rows the query matches (its `total`,
\* the rows of all pages together); a status other than the two workflow
\* states, and an absent category, filter nothing
get_main_db_records(mn, dg, status, category) ==
    {id \in DOMAIN mn :
        /\ status = "not_decked" => NotDeckedFilter(dg, id)
        /\ status = "decked" => DeckedFilter(dg, id)
        /\ truthy(category) => mn[id].DB_EST_CAT = category}

\* create_main_db_record: the new row (DB_DATE_EXCEL_UPLOAD defaults to now)
create_main_db_record(record, t) ==
    LET data == SetAttrs(MainDB, record)
    IN  IF data.DB_DATE_EXCEL_UPLOAD = NoDate
        THEN [data EXCEPT !.DB_DATE_EXCEL_UPLOAD = datetime_now(t)]
        ELSE data

\* update_main_db_record: only the fields the body sets are written
update_main_db_record(mn, record_id, record_update) ==
    [mn EXCEPT ![record_id] = SetAttrs(mn[record_id], record_update)]

\* delete_main_db_record (soft delete)
delete_main_db_record(mn, record_id, t) ==
    [mn EXCEPT ![record_id] =
        [mn[record_id] EXCEPT !.DB_TRASH = S_DELETED,
                              !.DB_TRASH_DATE_ENCODED = datetime_now(t)]]

\* restore_record that forgets the timestamp
restore_fields_keep_date(row) == [row EXCEPT !.DB_TRASH = None]

\* restore_record: the two assignments of the route
restore_fields(row) ==
    [row EXCEPT !.DB_TRASH = None, !.DB_TRASH_DATE_ENCODED = NoDate]

(* ------------------------------ log CRUD ------------------------------ *)
\* the columns of application_logs a request can set (application_status,
\* start_date and accomplished_date behave like these)
LogTextColumns ==
    {"application_step", "user_name", "application_decision",
     "application_remarks"}

\* a row of application_logs with every nullable column NULL
ApplicationLogs ==
    [c \in LogTextColumns \cup {"main_db_id", "created_at", "updated_at"} |->
        IF c = "main_db_id" THEN 0
        ELSE IF c \in {"created_at", "updated_at"} THEN NoDate ELSE None]

\* crud_logs.create: the new row (created_at and updated_at default to now)
crud_logs_create(log_in, t) ==
    [c \in DOMAIN ApplicationLogs |->
        IF c \in {"created_at", "updated_at"} THEN datetime_now(t)
        ELSE IF c \in DOMAIN log_in THEN log_in[c] ELSE ApplicationLogs[c]]

\* as crud_logs.update, were the fields the body leaves unset written as NULL
crud_logs_update_unset_too(lg, log_id, log_in, t) ==
    [lg EXCEPT ![log_id] =
        [c \in DOMAIN lg[log_id] |->
            IF c = "updated_at" THEN datetime_now(t)
            ELSE IF c \in DOMAIN log_in THEN log_in[c]
            ELSE IF c \in LogTextColumns THEN None ELSE lg[log_id][c]]]

\* crud_logs.update: the fields the body sets are written; updated_at
\* follows when the row changes
crud_logs_update(lg, log_id, log_in, t) ==
    LET row == SetAttrs(lg[log_id], log_in)
    IN  [lg EXCEPT ![log_id] =
            IF row = lg[log_id] THEN row
            ELSE [row EXCEPT !.updated_at = datetime_now(t)]]

\* crud_logs.delete
crud_logs_delete(lg, log_id) == Remove(lg, log_id)

\* the logs left when application `id` is deleted (cascade, delete-orphan)
LogsCascade(lg, id) ==
    [l \in {k \in DOMAIN lg : lg[k].main_db_id /= id} |-> lg[l]]

(* ----------------------------- Excel import --------------------------- *)
\* a text cell of the delegation columns: NaN gives NULL, a str is stripped
DelegationTextCell(raw_value) ==
    IF raw_value = None THEN None ELSE strip(raw_value)

\* parse_date_value on the cells the sheets below hold (empty, or a date
\* that upload_excel has already formatted as YYYY-MM-DD)
parse_date_value(value) ==
    IF value = None \/ strip(value) = S_EMPTY THEN NoDate
    ELSE IF strptime(strip(value)).ok
    THEN strptime(strip(value)).value ELSE NoDate

Cell(row, col) == IF col \in DOMAIN row THEN row[col] ELSE None

\* the delegation row upload_excel builds from one sheet row
delegation_data(row) ==
    [c \in DelegationColumns |->
        IF c \in DelegationDateColumns
        THEN parse_date_value(Cell(row, c))
        ELSE DelegationTextCell(Cell(row, c))]

\* the main_db row upload_excel builds from one sheet row
record_data(row, username, t) ==
    create_main_db_record(
        [c \in {"DB_EST_CAT", "DB_APP_STATUS", "DB_TRASH",
                "DB_USER_UPLOADER"} |->
            IF c = "DB_USER_UPLOADER" THEN username ELSE Cell(row, c)], t)

\* MainDBCreate(**record_data) validates: a DB_DTN cell that holds text must
\* parse as an int (the sheets below hold no numeric DTN, so the DB_DTN
\* stored is always NULL and is not kept in the rows)
Digits == {"0", "1", "2", "3", "4", "5", "6", "7", "8", "9"}

MainDBCreate_valid(row) ==
    \/ Cell(row, "DB_DTN") = None
    \/ /\ strip(Cell(row, "DB_DTN")) /= S_EMPTY
       /\ \A i \in 1..Len(strip(Cell(row, "DB_DTN"))) :
              strip(Cell(row, "DB_DTN"))[i] \in Digits

\* the entry of `errors` for the sheet row at `index` (0-based)
UploadError(index) == [row |-> index + 2]

\* the loop body of upload_excel for one sheet row: create_main_db_record
\* commits the application, then the delegation row is added and committed;
\* whatever raises on the way is caught and recorded in `errors`
upload_excel_row(db, row, index, raises, t) ==
    IF ~MainDBCreate_valid(row)
    THEN [db EXCEPT !.errors = Append(@, UploadError(index))]
    ELSE IF raises = index + 1
    THEN [db EXCEPT
            !.main = Insert(@, db.nextId, record_data(row, S_SYSTEM, t)),
            !.nextId = @ + 1,
            !.errors = Append(@, UploadError(index))]
    ELSE [db EXCEPT
            !.main = Insert(@, db.nextId, record_data(row, S_SYSTEM, t)),
            !.deleg = Insert(@, db.nextId, delegation_data(row)),
            !.nextId = @ + 1, !.success = @ + 1]

\* upload_excel: the rows from `index` on, in sheet order; `raises` is the
\* 1-based sheet row whose delegation insert the database rejects (0: none)
RECURSIVE upload_excel(_, _, _, _, _)
upload_excel(db, rows, index, raises, t) ==
    IF index >= Len(rows) THEN db
    ELSE upload_excel(upload_excel_row(db, rows[index + 1], index, raises, t),
                      rows, index + 1, raises, t)

\* errors[:10]
MaxErrorsReturned == 10

FirstErrors(errors) ==
    IF Len(errors) <= MaxErrorsReturned THEN errors
    ELSE SubSeq(errors, 1, MaxErrorsReturned)

(* --------------------------- request inputs --------------------------- *)
AppIds == 1..NoSuchId

DeckBody(decker, evaluator, decision, remarks, end) ==
    [decker |-> decker, evaluator |-> evaluator, deckerDecision |-> decision,
     deckerRemarks |-> remarks, dateDeckedEnd |-> end]

\* deck bodies: a plain one, a full one, one with a blank, one with a
\* whitespace and one with an "N/A" evaluator, and one the schema rejects
DeckBodies ==
    {DeckBody(S_DK1, S_ALICE, S_FOR_EVAL, None, None),
     DeckBody(S_DK2, S_BOB, S_RETURNED, S_REM, S_DATE_OK),
     DeckBody(S_EMPTY, S_EMPTY, S_FOR_EVAL, None, S_DATE_BAD),
     DeckBody(S_DK1, S_SPACE, S_FOR_EVAL, S_EMPTY, S_DATE_NOSUCH),
     DeckBody(S_DK1, S_NA, S_FOR_EVAL, None, None),
     DeckBody(S_DK1, None, S_FOR_EVAL, None, None)}

EvalBody(evaluator, decision, remarks, end, checker) ==
    [evaluator |-> evaluator, eval_decision |-> decision,
     eval_remarks |-> remarks, date_eval_end |-> end, checker |-> checker]

\* evaluation bodies: a plain one, a full one (padded decision), one with a
\* whitespace evaluator, and two the schema rejects (bad date, blank decision)
EvalBodies ==
    {EvalBody(S_ALICE, S_APPROVED, None, None, None),
     EvalBody(S_BOB, S_APPROVED_PADDED, S_REM, S_DATE_OK, S_CAROL),
     EvalBody(S_SPACE, S_DENIED, None, None, None),
     EvalBody(S_ALICE, S_APPROVED, None, S_DATE_BAD, None),
     EvalBody(S_ALICE, S_SPACE, None, None, None)}

\* record_ids lists: empty, one id, two ids, a duplicate, a non-positive id,
\* and lists with an id that has no row
IdLists ==
    {<< >>, << 1 >>, << 1, 2 >>, << 1, 1 >>, << 0, 1 >>,
     << 1, NoSuchId >>, << NoSuchId >>}

\* bulk deck requests (record_ids is any List[int]): the lists above with
\* every body, and a list of MaxBulkDeck ids and one of MaxBulkDeck + 1 ids
\* with the plain body
BulkDeckRequests ==
    {[ids |-> ids, body |-> body] : ids \in IdLists, body \in DeckBodies}
        \cup {[ids |-> [i \in 1..n |-> 1],
                body |-> DeckBody(S_DK1, S_ALICE, S_FOR_EVAL, None, None)] :
               n \in {MaxBulkDeck, MaxBulkDeck + 1}}

\* sheet rows: a blank one, one of an evaluated application that has no
\* decker, one with padded "N/A" evaluator
ROW_BLANK == [DB_APP_STATUS |-> S_PENDING]
ROW_EVALUATED ==
    [DB_EVALUATOR |-> S_ALICE, DB_EVAL_DECISION |-> S_APPROVED,
     DB_DATE_EVAL_END |-> S_DATE_OK, DB_CHECKER |-> S_CAROL,
     DB_CHECKER_DECISION |-> S_APPROVED, DB_SUPERVISOR |-> S_BOB,
     DB_EST_CAT |-> S_CAT]
ROW_NA ==
    [DB_DECKER |-> S_DK1, DB_DECKER_DECISION |-> S_FOR_EVAL,
     DB_EVALUATOR |-> S_NA_PADDED]

ROW_BAD_DTN == [DB_DTN |-> S_CAT, DB_APP_STATUS |-> S_PENDING]

\* sheets of one and two good rows, one whose first row fails validation,
\* and one with more failing rows than the response returns errors
Sheets ==
    {<< ROW_BLANK >>, << ROW_EVALUATED >>, << ROW_NA >>,
     << ROW_EVALUATED, ROW_BLANK >>, << ROW_NA, ROW_EVALUATED >>,
     << ROW_BAD_DTN, ROW_BLANK >>,
     [i \in 1..(MaxErrorsReturned + 1) |-> ROW_BAD_DTN]}

\* the rows of a sheet whose delegation insert can be reached (0: the
\* database rejects none)
RaisingRows(rows) ==
    {0} \cup {i \in 1..Len(rows) : MainDBCreate_valid(rows[i])}

CreateBodies == {[DB_APP_STATUS |-> S_PENDING], [DB_EST_CAT |-> S_CAT]}

UpdateBodies == {[DB_APP_STATUS |-> S_APPROVED], [DB_TRASH |-> None]}

LogIds == 1..(MaxLogs + 1)

\* ApplicationLogCreate bodies: every application id, one entry each
LogCreateBodies ==
    {[main_db_id |-> id, application_step |-> S_FOR_EVAL,
      user_name |-> S_ALICE, application_decision |-> S_APPROVED,
      application_remarks |-> None] : id \in AppIds}

\* ApplicationLogUpdate bodies (the fields set): none, one, two
LogUpdateBodies ==
    {[c \in {} |-> None],
     [application_decision |-> S_DENIED],
     [user_name |-> S_BOB, application_remarks |-> S_REM]}

(* ------------------------------ handlers ------------------------------ *)
\* the response of a request that fails schema validation (HTTP 422)
Unprocessable(op, id, ids, body, t) ==
    [NoResponse EXCEPT !.op = op, !.id = id, !.ids = ids, !.body = body,
                       !.status = 422, !.at = t]

\* a single deck that also writes the log entry of the decking
deck_single_application_route_logging ==
    \E id \in AppIds, body \in DeckBodies :
        /\ Serve
        /\ DeckApplicationBase(body)
        /\ \E r \in {deck_single_application(deleg, id, body, now')} :
              /\ deleg' = r.db
              /\ last' = [NoResponse EXCEPT
                             !.op = "deck_single", !.id = id, !.body = body,
                             !.status = IF r.success THEN 200 ELSE 400,
                             !.success = r.success, !.message = r.message,
                             !.updated_count = r.updated_count,
                             !.already_decked = r.already_decked,
                             !.previous_evaluator = r.previous_evaluator,
                             !.at = now']
              /\ IF r.success /\ nextLogId <= MaxLogs
                 THEN /\ logs' = Insert(logs, nextLogId,
                                        [ApplicationLogs EXCEPT
                                            !.main_db_id = id])
                      /\ nextLogId' = nextLogId + 1
                 ELSE UNCHANGED << logs, nextLogId >>
        /\ UNCHANGED << main, nextId, sessions >>

\* PATCH /api/deck/single/{db_main_id}
deck_single_application_route ==
    \E id \in AppIds, body \in DeckBodies :
        /\ Serve
        /\ IF ~DeckApplicationBase(body)
           THEN /\ deleg' = deleg
                /\ last' = Unprocessable("deck_single", id, << >>, body, now')
           ELSE \E r \in {deck_single_application(deleg, id, body, now')} :
                    /\ deleg' = r.db
                    /\ last' =
                        [NoResponse EXCEPT
                            !.op = "deck_single", !.id = id, !.body = body,
                            !.status = IF r.success THEN 200 ELSE 400,
                            !.success = r.success, !.message = r.message,
                            !.updated_count = r.updated_count,
                            !.already_decked = r.already_decked,
                            !.previous_evaluator = r.previous_evaluator,
                            !.at = now']
        /\ UNCHANGED << main, nextId, logs, nextLogId, sessions >>

\* PATCH /api/deck/bulk
bulk_deck_applications_route ==
    \E request \in BulkDeckRequests :
      \E ids \in {request.ids}, body \in {request.body} :
        /\ Serve
        /\ IF ~DeckApplicationBase(body)
           THEN /\ deleg' = deleg
                /\ last' = Unprocessable("deck_bulk", 0, ids, body, now')
           ELSE IF ids = << >> \/ TooManyToDeck(ids)
           THEN /\ deleg' = deleg
                /\ last' = [NoResponse EXCEPT
                               !.op = "deck_bulk", !.ids = ids,
                               !.body = body, !.status = 400, !.at = now']
           ELSE \E order \in Orders(RowsIn(deleg, ids)) :
                    \E r \in {bulk_deck_applications(
                                 deleg, body @@ [record_ids |-> ids],
                                 order, now')} :
                        /\ deleg' = r.db
                        /\ last' =
                            [NoResponse EXCEPT
                                !.op = "deck_bulk", !.ids = ids,
                                !.body = body, !.status = 200,
                                !.success = r.success,
                                !.message = r.message,
                                !.updated_count = r.updated_count,
                                !.failed_count = r.failed_count,
                                !.details = r.details, !.at = now']
        /\ UNCHANGED << main, nextId, logs, nextLogId, sessions >>

\* a route that answers 400 for every failure
ContainsNotFound_never(message) == FALSE

\* `"not found" in result["message"].lower()` on the messages of
\* evaluate_single
ContainsNotFound(message) == message = "Record not found"

\* a single evaluation that takes an application in the trash as missing
evaluate_single_application_active_only ==
    \E id \in AppIds, body \in EvalBodies :
        /\ Serve
        /\ EvaluationBase(body)
        /\ \E r \in {IF id \in DOMAIN main /\ main[id].DB_TRASH /= None
                      THEN [success |-> FALSE, message |-> "Record not found",
                            updated_count |-> 0, db |-> deleg]
                      ELSE evaluate_single(deleg, id, EvaluationRequest(body),
                                           now')} :
              /\ deleg' = r.db
              /\ last' = [NoResponse EXCEPT
                             !.op = "evaluate_single", !.id = id,
                             !.body = body,
                             !.status = IF r.success THEN 200
                                        ELSE IF ContainsNotFound(r.message)
                                        THEN 404 ELSE 400,
                             !.success = r.success, !.message = r.message,
                             !.updated_count = r.updated_count,
                             !.previous_evaluator = EvaluatorOf(deleg, id),
                             !.at = now']
        /\ UNCHANGED << main, nextId, logs, nextLogId, sessions >>

\* PATCH /api/evaluation/single/{db_main_id}
evaluate_single_application ==
    \E id \in AppIds, body \in EvalBodies :
        /\ Serve
        /\ IF ~EvaluationBase(body)
           THEN /\ deleg' = deleg
                /\ last' = Unprocessable("evaluate_single", id, << >>,
                                         body, now')
           ELSE \E r \in {evaluate_single(deleg, id, EvaluationRequest(body),
                                          now')} :
                    /\ deleg' = r.db
                    /\ last' =
                        [NoResponse EXCEPT
                            !.op = "evaluate_single", !.id = id,
                            !.body = body,
                            !.status =
                                IF r.success THEN 200
                                ELSE IF ContainsNotFound(r.message) THEN 404
                                ELSE 400,
                            !.success = r.success, !.message = r.message,
                            !.updated_count = r.updated_count,
                            !.previous_evaluator = EvaluatorOf(deleg, id),
                            !.at = now']
        /\ UNCHANGED << main, nextId, logs, nextLogId, sessions >>

\* PATCH /api/evaluation/bulk
bulk_evaluate_applications ==
    \E ids \in IdLists, body \in EvalBodies :
        /\ Serve
        /\ IF ~EvaluationBase(body) \/ ~validate_record_ids(ids)
           THEN /\ deleg' = deleg
                /\ last' = Unprocessable("evaluate_bulk", 0, ids, body, now')
           ELSE \E order \in Orders(RowsIn(deleg, ids)),
                   missing \in Orders(IdSet(ids) \ DOMAIN deleg),
                   throws \in BOOLEAN :
                    \E r \in {IF throws
                              THEN bulk_evaluate_failed(
                                       deleg,
                                       EvaluationRequest(body)
                                           @@ [record_ids |-> ids])
                              ELSE bulk_evaluate(
                                       deleg,
                                       EvaluationRequest(body)
                                           @@ [record_ids |-> ids],
                                       missing, order, now')} :
                        /\ deleg' = r.db
                        /\ last' =
                            [NoResponse EXCEPT
                                !.op = "evaluate_bulk", !.ids = ids,
                                !.body = body, !.status = 200,
                                !.success = r.success,
                                !.message = r.message,
                                !.updated_count = r.updated_count,
                                !.failed_count = r.failed_count,
                                !.details = r.details,
                                !.throws = throws, !.at = now']
        /\ UNCHANGED << main, nextId, logs, nextLogId, sessions >>

\* POST /api/main-db/
create_record ==
    \E body \in CreateBodies :
        /\ Serve
        /\ nextId <= MaxApps
        /\ main' = Insert(main, nextId, create_main_db_record(body, now'))
        /\ nextId' = nextId + 1
        /\ last' = [NoResponse EXCEPT !.op = "create", !.id = nextId,
                                      !.body = body, !.status = 201,
                                      !.success = TRUE, !.at = now']
        /\ UNCHANGED << deleg, logs, nextLogId, sessions >>

\* the response of upload_excel, for the tables r it leaves and the first id
\* it could assign
UploadResponse(r, first, rows, raises, t) ==
    [NoResponse EXCEPT
        !.op = "upload", !.id = first, !.body = rows, !.status = 200,
        !.success = TRUE, !.updated_count = r.success,
        !.failed_count = Len(r.errors), !.details = FirstErrors(r.errors),
        !.throws = raises /= 0, !.at = t]

\* POST /api/main-db/upload-excel
upload_excel_route ==
    \E rows \in Sheets :
      \E raises \in RaisingRows(rows) :
        /\ Serve
        /\ \E r \in {upload_excel([main |-> main, deleg |-> deleg,
                                    nextId |-> nextId, success |-> 0,
                                    errors |-> << >>],
                                   rows, 0, raises, now')} :
               /\ r.nextId <= MaxApps + 1
               /\ main' = r.main
               /\ deleg' = r.deleg
               /\ nextId' = r.nextId
               /\ last' = UploadResponse(r, nextId, rows, raises, now')
        /\ UNCHANGED << logs, nextLogId, sessions >>

\* PUT /api/main-db/{record_id}
update_record ==
    \E id \in AppIds, body \in UpdateBodies :
        /\ Serve
        /\ IF id \in DOMAIN main
           THEN /\ main' = update_main_db_record(main, id, body)
                /\ last' = [NoResponse EXCEPT !.op = "update", !.id = id,
                                              !.body = body, !.status = 200,
                                              !.success = TRUE, !.at = now']
           ELSE /\ main' = main
                /\ last' = [NoResponse EXCEPT !.op = "update", !.id = id,
                                              !.body = body, !.status = 404,
                                              !.at = now']
        /\ UNCHANGED << deleg, nextId, logs, nextLogId, sessions >>

\* a hard delete that leaves the delegation record behind
DelegationCascade_orphans(dg, id) == dg

\* cascade="all, delete-orphan" of MainDB.application_delegation (and
\* ondelete="CASCADE" of DB_MAIN_ID): the delegation record goes with its
\* application
DelegationCascade(dg, id) ==
    IF id \in DOMAIN dg THEN Remove(dg, id) ELSE dg

\* DELETE /api/main-db/{record_id}?hard_delete=...
delete_record ==
    \E id \in AppIds, hard_delete \in BOOLEAN :
        /\ Serve
        /\ IF id \notin DOMAIN main
           THEN /\ UNCHANGED << main, deleg, logs >>
                /\ last' = [NoResponse EXCEPT
                               !.op = "delete", !.id = id,
                               !.body = hard_delete, !.status = 404,
                               !.at = now']
           ELSE /\ IF hard_delete
                   THEN /\ main' = Remove(main, id)
                        /\ deleg' = DelegationCascade(deleg, id)
                        /\ logs' = LogsCascade(logs, id)
                   ELSE /\ main' = delete_main_db_record(main, id, now')
                        /\ deleg' = deleg
                        /\ logs' = logs
                /\ last' = [NoResponse EXCEPT
                               !.op = "delete", !.id = id,
                               !.body = hard_delete, !.status = 204,
                               !.success = TRUE, !.before = main[id],
                               !.at = now']
        /\ UNCHANGED << nextId, nextLogId, sessions >>

\* POST /api/main-db/{record_id}/restore
restore_record ==
    \E id \in AppIds :
        /\ Serve
        /\ IF id \notin DOMAIN main
           THEN /\ main' = main
                /\ last' = [NoResponse EXCEPT !.op = "restore", !.id = id,
                                              !.status = 404, !.at = now']
           ELSE /\ main' = [main EXCEPT ![id] = restore_fields(main[id])]
                /\ last' = [NoResponse EXCEPT !.op = "restore", !.id = id,
                                              !.status = 200,
                                              !.success = TRUE,
                                              !.before = main[id],
                                              !.at = now']
        /\ UNCHANGED << deleg, nextId, logs, nextLogId, sessions >>

\* GET /api/evaluation/status/{db_main_id} (a query; found rows only)
get_evaluation_status(id) ==
    [id |-> id,
     is_decked |-> is_decked(deleg[id]),
     is_evaluated |-> is_already_evaluated(deleg[id]),
     evaluator |-> deleg[id].DB_EVALUATOR,
     eval_decision |-> deleg[id].DB_EVAL_DECISION,
     eval_remarks |-> deleg[id].DB_EVAL_REMARKS,
     date_eval_end |-> deleg[id].DB_DATE_EVAL_END,
     checker |-> deleg[id].DB_CHECKER]

\* GET /api/main-db/?status=...&category=... (a query)
get_main_db(status, category) ==
    get_main_db_records(main, deleg, status, category)

\* POST /api/application-logs/ (a foreign key to no application makes the
\* insert raise: HTTP 500)
create_application_log ==
    \E log_in \in LogCreateBodies :
        /\ Serve
        /\ nextLogId <= MaxLogs
        /\ IF log_in.main_db_id \notin DOMAIN main
           THEN /\ UNCHANGED << logs, nextLogId >>
                /\ last' = [NoResponse EXCEPT
                               !.op = "create_log", !.id = log_in.main_db_id,
                               !.body = log_in, !.status = 500, !.at = now']
           ELSE /\ logs' = Insert(logs, nextLogId,
                                  crud_logs_create(log_in, now'))
                /\ nextLogId' = nextLogId + 1
                /\ last' = [NoResponse EXCEPT
                               !.op = "create_log", !.id = nextLogId,
                               !.body = log_in, !.status = 201,
                               !.success = TRUE, !.at = now']
        /\ UNCHANGED << main, deleg, nextId, sessions >>

\* PUT /api/application-logs/{log_id}
update_log ==
    \E log_id \in LogIds, log_in \in LogUpdateBodies :
        /\ Serve
        /\ IF log_id \notin DOMAIN logs
           THEN /\ UNCHANGED logs
                /\ last' = [NoResponse EXCEPT
                               !.op = "update_log", !.id = log_id,
                               !.body = log_in, !.status = 404, !.at = now']
           ELSE /\ logs' = crud_logs_update(logs, log_id, log_in, now')
                /\ last' = [NoResponse EXCEPT
                               !.op = "update_log", !.id = log_id,
                               !.body = log_in, !.status = 200,
                               !.success = TRUE, !.at = now']
        /\ UNCHANGED << main, deleg, nextId, nextLogId, sessions >>

\* DELETE /api/application-logs/{log_id}
delete_log ==
    \E log_id \in LogIds :
        /\ Serve
        /\ IF log_id \notin DOMAIN logs
           THEN /\ UNCHANGED logs
                /\ last' = [NoResponse EXCEPT
                               !.op = "delete_log", !.id = log_id,
                               !.status = 404, !.at = now']
           ELSE /\ logs' = crud_logs_delete(logs, log_id)
                /\ last' = [NoResponse EXCEPT
                               !.op = "delete_log", !.id = log_id,
                               !.status = 204, !.success = TRUE,
                               !.at = now']
        /\ UNCHANGED << main, deleg, nextId, nextLogId, sessions >>

(* --------------------------- bulk log creation ------------------------ *)
MaxBulkLogs == 100

\* the bodies of POST /api/application-logs/bulk: no log, one, two, and
\* MaxBulkLogs + 1 of them
BulkLogRequests ==
    {<< >>}
        \cup {<< a >> : a \in LogCreateBodies}
        \cup {<< a, b >> : a \in LogCreateBodies, b \in LogCreateBodies}
        \cup {[i \in 1..(MaxBulkLogs + 1) |->
                 CHOOSE a \in LogCreateBodies : a.main_db_id = 1]}

RECURSIVE create_bulk_logs(_, _, _, _, _)

\* the loop of create_bulk_application_logs with one transaction for the
\* request: an entry that fails undoes the entries before it
create_bulk_logs_all_or_nothing(db, apps, logs_in, idx, t) ==
    IF \E i \in 1..Len(logs_in) : logs_in[i].main_db_id \notin DOMAIN apps
    THEN [db EXCEPT !.errors = << 0 >>]
    ELSE [logs |->
              db.logs @@ [k \in db.nextLogId..(db.nextLogId + Len(logs_in) - 1)
                            |-> crud_logs_create(
                                    logs_in[k - db.nextLogId + 1], t)],
          nextLogId |-> db.nextLogId + Len(logs_in),
          created |-> [i \in 1..Len(logs_in) |-> db.nextLogId + i - 1],
          errors |-> << >>]

\* the loop of create_bulk_application_logs from entry idx + 1 on:
\* crud_logs.create adds and commits each entry; one that the database
\* rejects (no such application) is noted and the loop goes on
create_bulk_logs(db, apps, logs_in, idx, t) ==
    IF idx >= Len(logs_in) THEN db
    ELSE IF logs_in[idx + 1].main_db_id \notin DOMAIN apps
    THEN create_bulk_logs([db EXCEPT !.errors = Append(@, idx)],
                          apps, logs_in, idx + 1, t)
    ELSE create_bulk_logs(
             [db EXCEPT
                 !.logs = Insert(@, db.nextLogId,
                                 crud_logs_create(logs_in[idx + 1], t)),
                 !.nextLogId = @ + 1,
                 !.created = Append(@, db.nextLogId)],
             apps, logs_in, idx + 1, t)

\* POST /api/application-logs/bulk
create_bulk_application_logs ==
    \E logs_in \in BulkLogRequests :
        /\ Serve
        /\ IF logs_in = << >> \/ Len(logs_in) > MaxBulkLogs
           THEN /\ UNCHANGED << logs, nextLogId >>
                /\ last' = [NoResponse EXCEPT
                               !.op = "create_logs", !.body = logs_in,
                               !.status = 400, !.at = now']
           ELSE \E r \in {create_bulk_logs(
                              [logs |-> logs, nextLogId |-> nextLogId,
                               created |-> << >>, errors |-> << >>],
                              main, logs_in, 0, now')} :
                    /\ r.nextLogId <= MaxLogs + 1
                    /\ logs' = r.logs
                    /\ nextLogId' = r.nextLogId
                    /\ last' =
                        [NoResponse EXCEPT
                            !.op = "create_logs", !.body = logs_in,
                            !.ids = r.created,
                            !.status = IF r.created = << >>
                                       THEN 500 ELSE 201,
                            !.success = r.created /= << >>,
                            !.updated_count = Len(r.created),
                            !.failed_count = Len(r.errors),
                            !.details = r.errors, !.at = now']
        /\ UNCHANGED << main, deleg, nextId, sessions >>

(* ------------------------- requests in flight ------------------------- *)
\* the columns deck_single_application and update_evaluation_fields assign
DeckAssigns ==
    {"DB_EVALUATOR", "DB_DECKER", "DB_DECKER_DECISION", "DB_DECKER_REMARKS",
     "DB_DATE_DECKED_END"}

EvaluateAssigns ==
    {"DB_EVALUATOR", "DB_EVAL_DECISION", "DB_EVAL_REMARKS",
     "DB_DATE_EVAL_END", "DB_CHECKER"}

Assigns(op) == IF op = "deck_single" THEN DeckAssigns ELSE EvaluateAssigns

\* db.commit() of a session that has assigned `fields` to the row it loaded
\* as `loaded`: the unit of work writes the columns whose value differs from
\* the loaded one (an assignment of the loaded value is no net change) onto
\* the row as it is then
flush(current, loaded, fields) ==
    [c \in DOMAIN current |->
        IF fields[c] /= loaded[c] THEN fields[c] ELSE current[c]]

\* deck_single_application up to its db.commit(), in session s: the request
\* is validated, the record is read and the fields are assigned
deck_single_application_begin(s) ==
    \E id \in AppIds, body \in DeckBodies :
        /\ sessions[s].op = "none"
        /\ DeckApplicationBase(body)
        /\ Serve
        /\ \E r \in {deck_single_application(deleg, id, body, now')} :
              IF ~r.success
              THEN /\ UNCHANGED sessions
                   /\ last' = [NoResponse EXCEPT
                                  !.op = "deck_single", !.id = id,
                                  !.body = body, !.status = 400,
                                  !.message = r.message, !.at = now']
              ELSE /\ UNCHANGED last
                   /\ sessions' =
                          [sessions EXCEPT ![s] =
                              [op |-> "deck_single", id |-> id,
                               body |-> body, loaded |-> deleg[id],
                               fields |-> r.db[id], raced |-> {},
                               at |-> now']]
        /\ UNCHANGED << main, deleg, nextId, logs, nextLogId >>

\* evaluate_single up to its db.commit(), in session s
evaluate_single_begin(s) ==
    \E id \in AppIds, body \in EvalBodies :
        /\ sessions[s].op = "none"
        /\ EvaluationBase(body)
        /\ Serve
        /\ \E r \in {evaluate_single(deleg, id, EvaluationRequest(body),
                                      now')} :
              IF ~r.success
              THEN /\ UNCHANGED sessions
                   /\ last' = [NoResponse EXCEPT
                                  !.op = "evaluate_single", !.id = id,
                                  !.body = body,
                                  !.status = IF ContainsNotFound(r.message)
                                             THEN 404 ELSE 400,
                                  !.message = r.message, !.at = now']
              ELSE /\ UNCHANGED last
                   /\ sessions' =
                          [sessions EXCEPT ![s] =
                              [op |-> "evaluate_single", id |-> id,
                               body |-> body, loaded |-> deleg[id],
                               fields |-> r.db[id], raced |-> {},
                               at |-> now']]
        /\ UNCHANGED << main, deleg, nextId, logs, nextLogId >>

\* db.commit() of session s and the response of its request: nothing checks
\* whether the row has changed since it was read
session_commit(s) ==
    /\ sessions[s].op /= "none"
    /\ deleg' = [deleg EXCEPT ![sessions[s].id] =
                    flush(@, sessions[s].loaded, sessions[s].fields)]
    /\ last' = [NoResponse EXCEPT
                   !.op = sessions[s].op, !.id = sessions[s].id,
                   !.body = sessions[s].body, !.status = 200,
                   !.success = TRUE, !.updated_count = 1,
                   !.message =
                       IF sessions[s].op = "deck_single"
                       THEN "decked successfully"
                       ELSE "Application evaluated successfully",
                   !.at = sessions[s].at]
    /\ sessions' =
           [t \in Sessions |->
               IF t = s THEN NoSession
               ELSE IF sessions[t].op /= "none"
                       /\ sessions[t].id = sessions[s].id
               THEN [sessions[t] EXCEPT
                        !.raced = @ \cup Assigns(sessions[s].op)]
               ELSE sessions[t]]
    /\ UNCHANGED << main, nextId, now, logs, nextLogId >>

(* ------------------------------- callers ------------------------------ *)
\* who sends a request: `authenticated` says the bearer token decodes to the
\* username of a row of users; the other fields are that row's
Caller(authenticated, is_active, username, role, group_id) ==
    [authenticated |-> authenticated, is_active |-> is_active,
     username |-> username, role |-> role, group_id |-> group_id]

\* no valid token, an inactive admin, and three active users of different
\* name, role and group (group_id 0 stands for NULL)
Callers ==
    {Caller(FALSE, FALSE, None, "User", 0),
     Caller(TRUE, FALSE, S_BOB, "Admin", 1),
     Caller(TRUE, TRUE, S_ALICE, "User", 0),
     Caller(TRUE, TRUE, S_BOB, "Admin", 1),
     Caller(TRUE, TRUE, S_CAROL, "SuperAdmin", 2)}

\* get_current_active_user: the status it answers with (200: it returns the
\* user to the handler)
get_current_active_user(caller) ==
    IF ~caller.authenticated THEN 401
    ELSE IF ~caller.is_active THEN 400
    ELSE 200

\* a permission check that lets admins only evaluate
check_evaluation_permission_admins_only(current_user) ==
    current_user.role \in {"Admin", "SuperAdmin"}

\* check_evaluation_permission: its body is `pass`, it never raises
check_evaluation_permission(current_user) == TRUE

EvaluateOps == {"evaluate_single", "evaluate_bulk"}

DeckOps == {"deck_single", "deck_bulk"}

\* the dependencies and checks of the stage endpoint `op` let the caller
\* through to the handler
Admitted(op, caller) ==
    /\ get_current_active_user(caller) = 200
    /\ op \in EvaluateOps => check_evaluation_permission(caller)

\* the answer to a caller who is not let through (dependencies are resolved
\* before the body is validated)
Refused(op, caller, t) ==
    [NoResponse EXCEPT
        !.op = op,
        !.status = IF get_current_active_user(caller) /= 200
                   THEN get_current_active_user(caller) ELSE 403,
        !.message = IF ~caller.authenticated
                    THEN "Could not validate credentials"
                    ELSE IF ~caller.is_active THEN "Inactive user"
                    ELSE "Forbidden",
        !.at = t]

\* a request to the stage endpoint `op` by a caller who is refused
RefusedRequest(op) ==
    \E caller \in Callers :
        /\ ~Admitted(op, caller)
        /\ Serve
        /\ last' = Refused(op, caller, now')
        /\ UNCHANGED << main, deleg, nextId, logs, nextLogId, sessions >>

\* the four stage endpoints as any caller reaches them: the handler runs for
\* a caller who is let through (it reads nothing of the caller but the
\* username it logs)
deck_single_application_request ==
    \/ /\ {caller \in Callers : Admitted("deck_single", caller)} /= {}
       /\ deck_single_application_route
    \/ RefusedRequest("deck_single")

bulk_deck_applications_request ==
    \/ /\ {caller \in Callers : Admitted("deck_bulk", caller)} /= {}
       /\ bulk_deck_applications_route
    \/ RefusedRequest("deck_bulk")

evaluate_single_application_request ==
    \/ /\ {caller \in Callers : Admitted("evaluate_single", caller)} /= {}
       /\ evaluate_single_application
    \/ RefusedRequest("evaluate_single")

bulk_evaluate_applications_request ==
    \/ /\ {caller \in Callers : Admitted("evaluate_bulk", caller)} /= {}
       /\ bulk_evaluate_applications
    \/ RefusedRequest("evaluate_bulk")

(* --------------------------- specifications --------------------------- *)
\* the whole service
Next ==
    \/ create_record
    \/ upload_excel_route
    \/ update_record
    \/ delete_record
    \/ restore_record
    \/ deck_single_application_route
    \/ bulk_deck_applications_route
    \/ evaluate_single_application
    \/ bulk_evaluate_applications
    \/ create_application_log
    \/ update_log
    \/ delete_log

Spec == Init /\ [][Next]_vars

\* the deck endpoints on every kind of application: uploaded with a
\* delegation row, or left without one by an import whose insert was rejected
NextDeck ==
    \/ upload_excel_route
    \/ deck_single_application_route
    \/ bulk_deck_applications_route

SpecDeck == Init /\ [][NextDeck]_vars

\* the evaluation endpoints on uploaded applications
NextEval ==
    \/ upload_excel_route
    \/ evaluate_single_application
    \/ bulk_evaluate_applications

SpecEval == Init /\ [][NextEval]_vars

\* the application table: create, update, trash, restore, list; single deck
\* brings in every evaluator value the listing filter can meet
NextMain ==
    \/ create_record
    \/ upload_excel_route
    \/ update_record
    \/ delete_record
    \/ restore_record
    \/ deck_single_application_route

SpecMain == Init /\ [][NextMain]_vars

\* the log endpoints, and operations on the applications the entries
\* belong to: import, deck, trash and hard delete
NextLogs ==
    \/ upload_excel_route
    \/ delete_record
    \/ deck_single_application_route
    \/ create_application_log
    \/ update_log
    \/ delete_log

SpecLogs == Init /\ [][NextLogs]_vars

\* the sheets of two rows that both pass validation
TwoRowSheets ==
    {rows \in Sheets :
        Len(rows) = 2 /\ \A i \in 1..2 : MainDBCreate_valid(rows[i])}

\* the service after its first request, an Excel import of two rows that
\* the database accepted: the four stage endpoints on what the import left
InitImported ==
    /\ now = 1
    /\ logs = << >>
    /\ nextLogId = 1
    /\ sessions = NoSessions
    /\ \E rows \in TwoRowSheets :
         \E raises \in {0} :
           \E r \in {upload_excel([main |-> << >>, deleg |-> << >>,
                                    nextId |-> 1, success |-> 0,
                                    errors |-> << >>],
                                   rows, 0, raises, 1)} :
               /\ r.nextId <= MaxApps + 1
               /\ main = r.main
               /\ deleg = r.deleg
               /\ nextId = r.nextId
               /\ last = UploadResponse(r, 1, rows, raises, 1)

NextStage ==
    \/ deck_single_application_route
    \/ bulk_deck_applications_route
    \/ evaluate_single_application
    \/ bulk_evaluate_applications

SpecStage == InitImported /\ [][NextStage]_vars

OneRowSheets == {rows \in Sheets : Len(rows) = 1}

\* the service after its first request, an Excel import of one row, whose
\* delegation record the database accepted or rejected
InitOneRow ==
    /\ now = 1
    /\ logs = << >>
    /\ nextLogId = 1
    /\ sessions = NoSessions
    /\ \E rows \in OneRowSheets :
         \E raises \in RaisingRows(rows) :
           \E r \in {upload_excel([main |-> << >>, deleg |-> << >>,
                                    nextId |-> 1, success |-> 0,
                                    errors |-> << >>],
                                   rows, 0, raises, 1)} :
               /\ r.nextId <= MaxApps + 1
               /\ main = r.main
               /\ deleg = r.deleg
               /\ nextId = r.nextId
               /\ last = UploadResponse(r, 1, rows, raises, 1)

\* the life of an application after its import: update, trash, restore,
\* hard delete, deck, evaluation and log entries
NextLife ==
    \/ update_record
    \/ delete_record
    \/ restore_record
    \/ deck_single_application_route
    \/ evaluate_single_application
    \/ create_application_log

SpecLife == InitImported /\ [][NextLife]_vars

\* the stage endpoints on applications that go to the trash and back
NextTrash ==
    \/ delete_record
    \/ restore_record
    \/ deck_single_application_route
    \/ bulk_deck_applications_route
    \/ evaluate_single_application
    \/ bulk_evaluate_applications

SpecTrash == InitImported /\ [][NextTrash]_vars

\* the stage endpoints next to the creation of log entries
NextTrail ==
    \/ create_application_log
    \/ deck_single_application_route
    \/ bulk_deck_applications_route
    \/ evaluate_single_application
    \/ bulk_evaluate_applications

SpecTrail == InitImported /\ [][NextTrail]_vars

\* the requests that change several rows
NextBulk ==
    \/ upload_excel_route
    \/ bulk_deck_applications_route
    \/ bulk_evaluate_applications
    \/ create_bulk_application_logs

SpecBulk == InitOneRow /\ [][NextBulk]_vars

\* single deck and single evaluation as requests that overlap: each reads,
\* assigns and commits in a session of its own
NextRace ==
    \/ \E s \in Sessions : deck_single_application_begin(s)
    \/ \E s \in Sessions : evaluate_single_begin(s)
    \/ \E s \in Sessions : session_commit(s)

SpecRace == InitImported /\ [][NextRace]_vars

\* the four stage endpoints as every caller reaches them
NextAuth ==
    \/ deck_single_application_request
    \/ bulk_deck_applications_request
    \/ evaluate_single_application_request
    \/ bulk_evaluate_applications_request

SpecAuth == InitImported /\ [][NextAuth]_vars

(* ------------------------- evaluation properties ---------------------- *)
\* an Optional[str] that is NULL, empty or made of whitespace only
Blank(s) == s = None \/ \A i \in 1..Len(s) : isspace(s[i])

\* the details of a bulk response hold the entry d
InDetails(details, d) == \E i \in 1..Len(details) : details[i] = d

NotDeckedEntry(k) ==
    [id |-> k, status |-> "failed", reason |-> "Application is not yet decked"]

TransactionFailedEntry(k) ==
    [id |-> k, status |-> "failed", reason |-> "Transaction failed"]

\* what C1 states about one step, for `Blocked` as the test of a record that
\* must not be evaluated (a bulk evaluation whose transaction raises reports
\* every id with the transaction error)
EvaluateBlockedStep(Blocked(_)) ==
    /\ (/\ last'.op = "evaluate_single"
        /\ last'.status /= 422
        /\ last'.id \in DOMAIN deleg
        /\ Blocked(deleg[last'.id]))
       => /\ last'.status = 400
          /\ ~last'.success
          /\ last'.message =
                 "Application is not yet decked (not assigned to evaluator)"
          /\ deleg' = deleg
    /\ (last'.op = "evaluate_bulk" /\ last'.status /= 422)
       => \A k \in IdSet(last'.ids) \cap DOMAIN deleg :
              Blocked(deleg[k])
              => /\ deleg'[k] = deleg[k]
                 /\ InDetails(last'.details,
                              IF last'.throws THEN TransactionFailedEntry(k)
                              ELSE NotDeckedEntry(k))

DeckerUnset(record) == record.DB_DECKER \in {None, S_EMPTY, S_NA}

EvaluatorBlank(record) == Blank(record.DB_EVALUATOR)

\* C1 as written: an evaluation (single, or one id of a bulk) of a record
\* whose DB_DECKER is NULL, empty or "N/A" fails with the not-decked error
\* and leaves the record unchanged.
C1_DeckerGuards == [][EvaluateBlockedStep(DeckerUnset)]_vars

\* C1, amended: an evaluation (single, or one id of a bulk) of a record whose
\* DB_EVALUATOR is NULL, empty or whitespace only fails with the not-decked
\* error and leaves the record unchanged, whatever the other columns hold,
\* DB_DECKER included; when the transaction of a bulk evaluation raises, the
\* record is reported with the transaction error instead.
C1_EvaluatorGuards == [][EvaluateBlockedStep(EvaluatorBlank)]_vars

\* a single evaluation was refused on a record that has a decker but a
\* whitespace evaluator
C1_Witness ==
    /\ last.op = "evaluate_single"
    /\ last.status = 400
    /\ last.id \in DOMAIN deleg
    /\ deleg[last.id].DB_EVALUATOR = S_SPACE
    /\ deleg[last.id].DB_DECKER = S_DK1

\* the columns an evaluation writes hold the values of `body`
HoldsEvaluation(record, body, t) ==
    /\ record.DB_EVALUATOR = body.evaluator
    /\ record.DB_EVAL_DECISION = strip(body.eval_decision)
    /\ record.DB_EVAL_REMARKS =
           (IF truthy(body.eval_remarks) THEN body.eval_remarks ELSE S_EMPTY)
    /\ record.DB_DATE_EVAL_END =
           (IF truthy(body.date_eval_end)
            THEN strptime(body.date_eval_end).value ELSE datetime_now(t))
    /\ record.DB_CHECKER = body.checker

\* C4 as written: when a single evaluation has just succeeded on a validly
\* decked record (its evaluator was not blank and not "N/A"), a second single
\* evaluation of the same record succeeds too, and the evaluator, decision,
\* remarks, end date and checker then hold the second call's values.
C4_EvaluateTwice ==
    [][(/\ last.op = "evaluate_single"
        /\ last.success
        /\ ~Blank(last.previous_evaluator)
        /\ last.previous_evaluator /= S_NA
        /\ last'.op = "evaluate_single"
        /\ last'.id = last.id
        /\ last'.status /= 422)
       => /\ last'.success
          /\ last'.status = 200
          /\ HoldsEvaluation(deleg'[last'.id], last'.body, last'.at)]_vars

HasDuplicate(ids) == \E i, j \in 1..Len(ids) : i /= j /\ ids[i] = ids[j]

HasNonPositive(ids) == \E i \in 1..Len(ids) : ids[i] <= 0

\* C6: a bulk evaluation whose id list is empty, holds a duplicate or holds
\* an id <= 0 is rejected by validation: no table changes and the response
\* carries no per-id result.
C6_BulkEvaluateRejected ==
    [][(/\ last'.op = "evaluate_bulk"
        /\ \/ last'.ids = << >>
           \/ HasDuplicate(last'.ids)
           \/ HasNonPositive(last'.ids))
       => /\ last'.status = 422
          /\ ~last'.success
          /\ deleg' = deleg
          /\ main' = main
          /\ last'.details = << >>
          /\ last'.updated_count = 0
          /\ last'.failed_count = 0]_vars

\* a duplicated id of a decked record, with a body the schema accepts, was
\* rejected
C6_Witness ==
    /\ last.op = "evaluate_bulk"
    /\ last.ids = << 1, 1 >>
    /\ EvaluationBase(last.body)
    /\ last.status = 422
    /\ 1 \in DOMAIN deleg
    /\ is_decked(deleg[1])

(* ---------------------------- deck properties ------------------------- *)
\* C2 as written: after a successful single deck of an application that
\* had no evaluator, the status endpoint reports is_decked = true and the
\* application is in the status=decked listing and not in the not_decked one.
C2_DeckMakesDecked ==
    (/\ last.op = "deck_single"
     /\ last.success
     /\ ~last.already_decked)
    => /\ get_evaluation_status(last.id).is_decked
       /\ last.id \in get_main_db("decked", None)
       /\ last.id \notin get_main_db("not_decked", None)

\* C3 as written: a single deck of a record whose evaluator is non-empty and
\* not "N/A" succeeds, replaces evaluator, decker, decker decision and decker
\* remarks by the request's values and reports the evaluator stored before;
\* a single deck of any other record reports no previous evaluator.
C3_RedeckReportsPrevious ==
    [][(/\ last'.op = "deck_single"
        /\ last'.status /= 422
        /\ last'.id \in DOMAIN deleg)
       => LET old == deleg[last'.id]
              new == deleg'[last'.id]
              body == last'.body
              assigned == /\ old.DB_EVALUATOR /= None
                          /\ old.DB_EVALUATOR /= S_EMPTY
                          /\ old.DB_EVALUATOR /= S_NA
          IN  /\ last'.success
              /\ last'.status = 200
              /\ new.DB_EVALUATOR = body.evaluator
              /\ new.DB_DECKER = body.decker
              /\ new.DB_DECKER_DECISION = body.deckerDecision
              /\ new.DB_DECKER_REMARKS =
                     (IF body.deckerRemarks = None
                      THEN S_EMPTY ELSE body.deckerRemarks)
              /\ assigned
                 => /\ last'.already_decked
                    /\ last'.previous_evaluator = old.DB_EVALUATOR
              /\ ~assigned
                 => /\ ~last'.already_decked
                    /\ last'.previous_evaluator = None]_vars

\* C5 as written: a bulk deck of which at least one id has a record updates
\* the records found, counts every id that has no record in failed_count and
\* reports each of them in details.
C5_BulkDeckCountsMissing ==
    (/\ last.op = "deck_bulk"
     /\ last.status = 200
     /\ RowsIn(deleg, last.ids) /= {})
    => LET missing == IdSet(last.ids) \ DOMAIN deleg
       IN  /\ last.updated_count = Cardinality(RowsIn(deleg, last.ids))
           /\ last.failed_count = Cardinality(missing)
           /\ \A k \in missing :
                  \E i \in 1..Len(last.details) : last.details[i].id = k

EvaluatorSet(record) ==
    /\ record.DB_EVALUATOR /= None
    /\ record.DB_EVALUATOR /= S_EMPTY
    /\ record.DB_EVALUATOR /= S_NA

\* C7 as written: status=decked lists exactly the applications whose
\* delegation record has an evaluator that is not NULL, not empty and not
\* "N/A"; status=not_decked lists exactly the other applications that have a
\* delegation record; the two are disjoint and together they are the
\* applications that have a delegation record.
C7_PartitionOfDelegated ==
    LET decked == get_main_db("decked", None)
        not_decked == get_main_db("not_decked", None)
        delegated == DOMAIN main \cap DOMAIN deleg
    IN  /\ decked = {id \in delegated : EvaluatorSet(deleg[id])}
        /\ not_decked = delegated \ decked
        /\ decked \cap not_decked = {}
        /\ decked \cup not_decked = delegated

\* C7, amended: status=decked lists exactly the applications whose
\* delegation record has an evaluator that is not NULL, not empty and not
\* "N/A"; status=not_decked lists exactly all other applications, those
\* without a delegation record included; the two are disjoint and together
\* they are all applications.
C7_PartitionOfAll ==
    LET decked == get_main_db("decked", None)
        not_decked == get_main_db("not_decked", None)
        delegated == DOMAIN main \cap DOMAIN deleg
    IN  /\ decked = {id \in delegated : EvaluatorSet(deleg[id])}
        /\ not_decked = DOMAIN main \ decked
        /\ decked \cap not_decked = {}
        /\ decked \cup not_decked = DOMAIN main

\* one application is listed as decked and another, which has no delegation
\* record, as not decked
C7_Witness ==
    \E a \in DOMAIN deleg, b \in DOMAIN main \ DOMAIN deleg :
        /\ a \in get_main_db("decked", None)
        /\ b \in get_main_db("not_decked", None)

\* C8 as written: after a soft delete the application carries the trash
\* marker and the trash timestamp, and the default listing leaves it out.
C8_TrashedIsHidden ==
    (last.op = "delete" /\ last.body = FALSE /\ last.success)
    => /\ main[last.id].DB_TRASH /= None
       /\ main[last.id].DB_TRASH_DATE_ENCODED = datetime_now(last.at)
       /\ last.id \notin get_main_db("", None)

\* the columns of main_db other than the two trash columns
KeptColumns == MainColumns \ {"DB_TRASH", "DB_TRASH_DATE_ENCODED"}

\* the step changes no row of main_db but `id`, and of that row only the
\* trash columns; application_delegation stays as it is
OnlyTrashChanges(id) ==
    /\ DOMAIN main' = DOMAIN main
    /\ \A k \in DOMAIN main \ {id} : main'[k] = main[k]
    /\ \A c \in KeptColumns : main'[id][c] = main[id][c]
    /\ deleg' = deleg

\* C9: a soft delete changes only the two trash columns of its row; a
\* restore of an existing id answers 200, clears both trash columns, changes
\* nothing else in either table and leaves the application in the default
\* listing; a restore right after the soft delete of the same application
\* gives back the row as it was before the soft delete; a restore of an id
\* that has no row answers 404 and changes nothing.
C9_RestoreRoundTrip ==
    [][/\ (last'.op = "delete" /\ last'.body = FALSE /\ last'.success)
          => OnlyTrashChanges(last'.id)
       /\ (last'.op = "restore" /\ last'.id \in DOMAIN main)
          => /\ last'.status = 200
             /\ main'[last'.id].DB_TRASH = None
             /\ main'[last'.id].DB_TRASH_DATE_ENCODED = NoDate
             /\ OnlyTrashChanges(last'.id)
             /\ last'.id \in get_main_db_records(main', deleg', "", None)
             /\ (/\ last.op = "delete" /\ last.body = FALSE /\ last.success
                 /\ last.id = last'.id
                 /\ last.before.DB_TRASH = None
                 /\ last.before.DB_TRASH_DATE_ENCODED = NoDate)
                => main'[last'.id] = last.before
       /\ (last'.op = "restore" /\ last'.id \notin DOMAIN main)
          => /\ last'.status = 404
             /\ main' = main
             /\ deleg' = deleg]_vars

\* a trashed application that has a delegation record has been restored
C9_Witness ==
    /\ last.op = "restore"
    /\ last.success
    /\ last.before.DB_TRASH = S_DELETED
    /\ last.before.DB_TRASH_DATE_ENCODED /= NoDate
    /\ main[last.id].DB_TRASH = None
    /\ main[last.id].DB_TRASH_DATE_ENCODED = NoDate
    /\ last.id \in DOMAIN deleg

(* ------------------------ deck properties, continued ------------------ *)
\* C11 as written: after a successful single deck the stored delegation
\* record holds the request's evaluator, decker, decker decision and decker
\* remarks ("" when absent), a DB_DATE_DECKED equal to the time of the call,
\* and a DB_DATE_DECKED_END equal to the supplied date, or to the time of the
\* call when no date is supplied.
C11_DeckPersists ==
    (last.op = "deck_single" /\ last.success)
    => LET record == deleg[last.id]
           body == last.body
       IN  /\ record.DB_EVALUATOR = body.evaluator
           /\ record.DB_DECKER = body.decker
           /\ record.DB_DECKER_DECISION = body.deckerDecision
           /\ record.DB_DECKER_REMARKS =
                  (IF body.deckerRemarks = None
                   THEN S_EMPTY ELSE body.deckerRemarks)
           /\ ~truthy(body.dateDeckedEnd)
              => record.DB_DATE_DECKED_END = datetime_now(last.at)
           /\ (truthy(body.dateDeckedEnd) /\ strptime(body.dateDeckedEnd).ok)
              => record.DB_DATE_DECKED_END =
                     strptime(body.dateDeckedEnd).value
           /\ "DB_DATE_DECKED" \in DOMAIN record
           /\ record["DB_DATE_DECKED"] = datetime_now(last.at)

\* the columns a deck writes
DeckColumns ==
    {"DB_EVALUATOR", "DB_DECKER", "DB_DECKER_DECISION", "DB_DECKER_REMARKS",
     "DB_DATE_DECKED_END"}

\* the ids a deck request names
DeckTargets(response) ==
    IF response.op = "deck_single" THEN {response.id}
    ELSE IdSet(response.ids)

\* C12: a deck (single or bulk) changes no application row and creates or
\* removes no delegation record; of a targeted record it changes only the
\* evaluator, the decker columns and the decked end date; every other record
\* stays as it is; a record that is evaluated stays evaluated.
C12_DeckFrame ==
    [][last'.op \in {"deck_single", "deck_bulk"}
       => /\ main' = main
          /\ DOMAIN deleg' = DOMAIN deleg
          /\ \A k \in DOMAIN deleg :
                 /\ k \notin DeckTargets(last') => deleg'[k] = deleg[k]
                 /\ \A c \in DelegationColumns \ DeckColumns :
                        deleg'[k][c] = deleg[k][c]
                 /\ is_already_evaluated(deleg[k])
                    => is_already_evaluated(deleg'[k])]_vars

\* an evaluated application has been decked again, to bob, next to a second
\* application; it still has its evaluation decision and its checker
C12_Witness ==
    /\ last.op \in {"deck_single", "deck_bulk"}
    /\ last.success
    /\ \E k \in DeckTargets(last) \cap DOMAIN deleg :
           /\ deleg[k].DB_EVALUATOR = S_BOB
           /\ deleg[k].DB_EVAL_DECISION = S_APPROVED
           /\ deleg[k].DB_CHECKER = S_CAROL
           /\ is_already_evaluated(deleg[k])
    /\ \E k \in DOMAIN deleg : k \notin DeckTargets(last)

\* C13: a bulk deck whose body the schema accepts is refused with HTTP 400,
\* and changes no delegation record, when record_ids is empty or holds more
\* than 100 ids; with 1 to 100 ids it is processed: the answer is the CRUD
\* result (HTTP 200) and every record found is decked.
C13_BulkDeckLimit ==
    [][(last'.op = "deck_bulk" /\ last'.status /= 422)
       => /\ (Len(last'.ids) = 0 \/ Len(last'.ids) > 100)
             => /\ last'.status = 400
                /\ ~last'.success
                /\ deleg' = deleg
          /\ (Len(last'.ids) >= 1 /\ Len(last'.ids) <= 100)
             => /\ last'.status = 200
                /\ \A k \in IdSet(last'.ids) \cap DOMAIN deleg :
                       /\ deleg'[k].DB_EVALUATOR = last'.body.evaluator
                       /\ deleg'[k].DB_DECKER = last'.body.decker]_vars

\* a bulk deck of 101 ids, all of an existing record, has been refused
C13_Witness ==
    /\ last.op = "deck_bulk"
    /\ Len(last.ids) = 101
    /\ DeckApplicationBase(last.body)
    /\ last.status = 400
    /\ IdSet(last.ids) \subseteq DOMAIN deleg

\* the table after deck_single_application on each id of the set `ids`, one
\* after the other, all at time t
RECURSIVE SingleDeckEach(_, _, _, _)
SingleDeckEach(db, ids, body, t) ==
    IF ids = {} THEN db
    ELSE LET id == CHOOSE k \in ids : TRUE
         IN  SingleDeckEach(deck_single_application(db, id, body, t).db,
                            ids \ {id}, body, t)

\* C14: the delegation table after a bulk deck that found records is the
\* table single decks of each found id with the same body give, the clock
\* read alike in both.
C14_BulkDeckIsSingleDecks ==
    [][(/\ last'.op = "deck_bulk"
        /\ last'.status = 200
        /\ RowsIn(deleg, last'.ids) /= {})
       => deleg' = SingleDeckEach(deleg, RowsIn(deleg, last'.ids),
                                  last'.body, last'.at)]_vars

\* one bulk deck has decked two records that held different values
C14_Witness ==
    /\ last.op = "deck_bulk"
    /\ last.success
    /\ last.updated_count = 2
    /\ \A k \in IdSet(last.ids) : k \in DOMAIN deleg
    /\ \A k \in IdSet(last.ids) :
           /\ deleg[k].DB_EVALUATOR = last.body.evaluator
           /\ deleg[k].DB_DECKER_REMARKS = S_EMPTY
    /\ \E j, k \in IdSet(last.ids) : deleg[j] /= deleg[k]

Evaluated(response) ==
    IF response.op = "evaluate_single"
    THEN (IF response.success THEN {response.id} ELSE {})
    ELSE IF response.op = "evaluate_bulk"
    THEN {response.details[i].id : i \in
             {j \in 1..Len(response.details) :
                 response.details[j].status = "success"}}
    ELSE {}

\* the other columns of the checker stage and the columns of the stages
\* after it
AfterEvaluationColumns ==
    {"DB_CHECKER_DECISION", "DB_CHECKER_REMARKS", "DB_DATE_CHECKER_END",
     "DB_SUPERVISOR", "DB_SUPERVISOR_DECISION", "DB_SUPERVISOR_REMARKS",
     "DB_DATE_SUPERVISOR_END",
     "DB_QA", "DB_QA_DECISION", "DB_QA_REMARKS", "DB_DATE_QA_END",
     "DB_DIRECTOR", "DB_DIRECTOR_DECISION", "DB_DIRECTOR_REMARKS",
     "DB_DATE_DIRECTOR_END",
     "DB_RELEASING_OFFICER", "DB_RELEASING_OFFICER_DECISION",
     "DB_RELEASING_OFFICER_REMARKS", "DB_RELEASING_OFFICER_END"}

OneEntry(details, k, d) ==
    /\ Cardinality({i \in 1..Len(details) : details[i].id = k}) = 1
    /\ InDetails(details, d)

\* C17: a bulk evaluation that validation accepts and that does not throw
\* reports each requested id once and updated_count + failed_count is the
\* number of ids: an id without record is failed as "Record not found", a
\* record that is not decked is failed and stays as it is, a decked record
\* is a success and holds the request's values, and no other record changes.
C17_BulkEvaluateDetails ==
    [][(/\ last'.op = "evaluate_bulk"
        /\ last'.status = 200
        /\ ~last'.throws)
       => /\ Len(last'.details) = Len(last'.ids)
          /\ last'.updated_count + last'.failed_count = Len(last'.ids)
          /\ last'.updated_count = Cardinality(Evaluated(last'))
          /\ last'.success <=> last'.updated_count > 0
          /\ \A k \in IdSet(last'.ids) :
                 IF k \notin DOMAIN deleg
                 THEN OneEntry(last'.details, k,
                               [id |-> k, status |-> "failed",
                                reason |-> "Record not found"])
                 ELSE IF Blank(deleg[k].DB_EVALUATOR)
                 THEN /\ OneEntry(last'.details, k, NotDeckedEntry(k))
                      /\ deleg'[k] = deleg[k]
                 ELSE /\ OneEntry(last'.details, k,
                                  [id |-> k, status |-> "success",
                                   reason |-> "None"])
                      /\ HoldsEvaluation(deleg'[k], last'.body, last'.at)
          /\ DOMAIN deleg' = DOMAIN deleg
          /\ \A k \in DOMAIN deleg \ IdSet(last'.ids) :
                 deleg'[k] = deleg[k]]_vars

\* one bulk evaluation has evaluated one record and failed an id that has
\* no record
C17_Witness ==
    /\ last.op = "evaluate_bulk"
    /\ last.status = 200
    /\ ~last.throws
    /\ last.updated_count = 1
    /\ last.failed_count = 1
    /\ \E i \in 1..Len(last.details) :
           last.details[i].reason = "Record not found"

\* C18: when the transaction of a bulk evaluation throws, the response has
\* success = false, updated_count 0, failed_count = the number of ids and
\* one "Transaction failed" entry per requested id, and no table differs
\* from before the request.
C18_BulkEvaluateThrows ==
    [][(last'.op = "evaluate_bulk" /\ last'.throws)
       => /\ ~last'.success
          /\ last'.updated_count = 0
          /\ last'.failed_count = Len(last'.ids)
          /\ Len(last'.details) = Len(last'.ids)
          /\ \A i \in 1..Len(last'.ids) :
                 last'.details[i] =
                     [id |-> last'.ids[i], status |-> "failed",
                      reason |-> "Transaction failed"]
          /\ deleg' = deleg
          /\ main' = main]_vars

\* the transaction threw on a request of two ids, one of a decked record
C18_Witness ==
    /\ last.op = "evaluate_bulk"
    /\ last.throws
    /\ Len(last.ids) = 2
    /\ \E k \in IdSet(last.ids) \cap DOMAIN deleg :
           ~Blank(deleg[k].DB_EVALUATOR)

(* ----------------------------- log properties ------------------------- *)
\* the entries present before a step whose application is there after it
LiveEntries == {l \in DOMAIN logs : logs[l].main_db_id \in DOMAIN main'}

\* the step leaves entry l in place with every field as it was
EntryKept(l) == l \in DOMAIN logs' /\ logs'[l] = logs[l]

\* the step is a log update or a log delete of entry l
EntryEdited(l) == last'.op \in {"update_log", "delete_log"} /\ last'.id = l

\* C19 as stated: no operation changes or removes an existing entry of a
\* live application.
C19_AppendOnly == [][\A l \in LiveEntries : EntryKept(l)]_vars

\* C19: an entry of a live application is changed or removed only by a log
\* update or a log delete of that entry: every other step keeps it, an
\* update writes the fields of its body (and updated_at) and no others, and
\* every step keeps the entries it had and adds at most new ones otherwise.
C19_OnlyLogEditsChange ==
    [][/\ \A l \in LiveEntries : ~EntryEdited(l) => EntryKept(l)
       /\ \A l \in LiveEntries :
            (last'.op = "update_log" /\ last'.id = l) =>
                /\ l \in DOMAIN logs'
                /\ \A c \in DOMAIN logs[l] :
                       IF c \in DOMAIN last'.body
                       THEN logs'[l][c] = last'.body[c]
                       ELSE c /= "updated_at" => logs'[l][c] = logs[l][c]
       /\ \A l \in LiveEntries :
            (last'.op = "delete_log" /\ last'.id = l) =>
                l \notin DOMAIN logs']_vars

\* an entry of a live application has been updated
C19_Witness ==
    /\ last.op = "update_log" /\ last.success
    /\ last.id \in DOMAIN logs
    /\ logs[last.id].main_db_id \in DOMAIN main
    /\ logs[last.id].updated_at /= logs[last.id].created_at
    /\ logs[last.id].application_decision = S_DENIED

(* ---------------------------- import properties ----------------------- *)
\* the applications the import served last has created
Imported == last.id..(nextId - 1)

\* the rows of a sheet that pass the validation of MainDBCreate
ValidRows(rows) == {i \in 1..Len(rows) : MainDBCreate_valid(rows[i])}

\* C20: after an Excel import of N data rows, success + errors = N; as many
\* applications were created as rows are reported successful, each with
\* its delegation record (so a failing row created neither); every row
\* that does not fail is imported whatever the rows before it did; and at
\* most the first 10 errors are returned.
C20_ImportCounts ==
    last.op = "upload" =>
        /\ last.updated_count + last.failed_count = Len(last.body)
        /\ Cardinality(Imported) = last.updated_count
        /\ \A id \in Imported : id \in DOMAIN main /\ id \in DOMAIN deleg
        /\ last.updated_count =
               Cardinality(ValidRows(last.body))
                   - (IF last.throws THEN 1 ELSE 0)
        /\ Len(last.details) <= MaxErrorsReturned
        /\ Len(last.details) <= last.failed_count
        /\ \A i \in 1..Len(last.details) :
               last.details[i].row \in 2..(Len(last.body) + 1)

(* ------------------------- end date properties ------------------------ *)
\* the end dates the requests carry, and those of them that are supplied
\* and are no YYYY-MM-DD date
EndDates ==
    {body.dateDeckedEnd : body \in DeckBodies}
        \cup {body.date_eval_end : body \in EvalBodies}

BadDates == {s \in EndDates : s /= None /\ ~strptime(s).ok}

BadDate(s) == s \in BadDates

\* the records a deck response reports as decked
Decked(response) ==
    IF response.op = "deck_single"
    THEN (IF response.success THEN {response.id} ELSE {})
    ELSE IF response.op = "deck_bulk"
    THEN {response.details[i].id : i \in
             {j \in 1..Len(response.details) :
                 response.details[j].status = "success"}}
    ELSE {}

\* what C21 says of a deck with such a date, for its response and the
\* table it leaves: it is validated as any other and every record it decks
\* holds the time of the call as decked end
BadDateDeck(response, db) ==
    (/\ response.op \in {"deck_single", "deck_bulk"}
     /\ BadDate(response.body.dateDeckedEnd))
    => /\ response.status /= 422
       /\ \A k \in Decked(response) :
              db[k].DB_DATE_DECKED_END = datetime_now(response.at)

\* C21 as stated: a deck or an evaluation whose end date is no YYYY-MM-DD
\* date is not rejected for it, and the records it updates hold the time of
\* the call as the stage's end date.
C21_BadDateSwallowed ==
    /\ BadDateDeck(last, deleg)
    /\ (/\ last.op \in {"evaluate_single", "evaluate_bulk"}
        /\ BadDate(last.body.date_eval_end))
       => /\ last.status /= 422
          /\ \A k \in Evaluated(last) :
                 deleg[k].DB_DATE_EVAL_END = datetime_now(last.at)

\* C21, amended: a deck whose end date is no YYYY-MM-DD date proceeds and
\* stores the time of the call as decked end; an evaluation with such a
\* date is rejected by validation (422) and changes no table.
C21_BadDateDeckOnly ==
    [][/\ BadDateDeck(last', deleg')
       /\ (/\ last'.op \in {"evaluate_single", "evaluate_bulk"}
           /\ BadDate(last'.body.date_eval_end))
          => /\ last'.status = 422
             /\ ~last'.success
             /\ deleg' = deleg /\ main' = main /\ logs' = logs]_vars

\* an evaluation of a decked record has been rejected for its end date
C21_Witness ==
    /\ last.op = "evaluate_single"
    /\ last.status = 422
    /\ BadDate(last.body.date_eval_end)
    /\ last.id \in DOMAIN deleg
    /\ is_decked(deleg[last.id])
    /\ validate_decision(last.body.eval_decision)

(* ---------------------------- caller properties ----------------------- *)
StageOps == DeckOps \cup EvaluateOps

\* the answer is one a refused caller gets
IsRefusal(response) ==
    \E caller \in Callers :
        /\ ~Admitted(response.op, caller)
        /\ response = Refused(response.op, caller, response.at)

Commits(s) == sessions[s].op /= "none" /\ sessions'[s].op = "none"

\* C23: a stage request that has read its record commits and reports
\* success whatever another request has committed to the record meanwhile,
\* and every column both requests assign holds the value of the one that
\* commits last.
C23_LastWriterWins ==
    [][\A s \in Sessions :
         Commits(s) =>
            /\ last'.success /\ last'.status = 200
            /\ \A c \in sessions[s].raced \cap Assigns(sessions[s].op) :
                   deleg'[sessions[s].id][c] = sessions[s].fields[c]]_vars

(* -------------------------- transaction properties -------------------- *)
\* the step is a request of kind op
Handles(op) == last'.op = op /\ now' = now + 1 /\ last'.at = now'

\* the rows a bulk request with the ids of the response can reach
Reached == {k \in DOMAIN deleg : k \in IdSet(last'.ids)}

\* the entries of a bulk log request whose application exists
Creatable(logs_in) ==
    {i \in 1..Len(logs_in) : logs_in[i].main_db_id \in DOMAIN main}

\* a rejected row leaves nothing of its request behind
NothingPersisted ==
    /\ main' = main /\ deleg' = deleg /\ logs' = logs

Found == {k \in DOMAIN deleg : k \in IdSet(last'.ids)}

\* C25: a deck or an evaluation, single or bulk, successful or not, leaves
\* every log entry as it is and creates none, and whether it succeeds is
\* settled by the delegation records alone, whatever log entries exist.
C25_StagesLeaveLogs ==
    [][\A op \in StageOps :
         Handles(op) =>
            /\ logs' = logs
            /\ nextLogId' = nextLogId
            /\ last'.status /= 422 =>
                 /\ op = "deck_single" =>
                        (last'.success <=> last'.id \in DOMAIN deleg)
                 /\ op = "evaluate_single" =>
                        (last'.success <=>
                            /\ last'.id \in DOMAIN deleg
                            /\ is_decked(deleg[last'.id]))
                 /\ op = "deck_bulk" /\ last'.status = 200 =>
                        last'.updated_count = Cardinality(Found)
                 /\ op = "evaluate_bulk" /\ ~last'.throws =>
                        last'.updated_count =
                            Cardinality({k \in Found : is_decked(deleg[k])})
      ]_vars

\* a deck and a failed evaluation of applications that have a log entry
C25_Witness ==
    /\ last.op \in StageOps
    /\ last.op = "evaluate_single" => ~last.success
    /\ last.op = "deck_single" => last.success
    /\ last.op \in {"deck_single", "evaluate_single"}
    /\ \E k \in DOMAIN logs : logs[k].main_db_id = last.id

(* ---------------------------- lifecycle properties -------------------- *)
\* the step is the hard delete of application k
HardDeletes(k) ==
    /\ Handles("delete")
    /\ last'.body = TRUE
    /\ last'.success
    /\ last'.id = k

\* C26: a delegation record disappears only in the hard delete of its
\* application, which removes the application, its delegation record and
\* its log entries together; soft delete, restore, update, deck and
\* evaluation remove none. Every delegation record belongs to an existing
\* application (the records are keyed by the application id, one each).
C26_RemovedWithParentOnly ==
    /\ [](DOMAIN deleg \subseteq DOMAIN main)
    /\ [][/\ \A k \in DOMAIN deleg \ DOMAIN deleg' : HardDeletes(k)
          /\ \A k \in DOMAIN main :
                HardDeletes(k) =>
                    /\ k \notin DOMAIN main'
                    /\ k \notin DOMAIN deleg'
                    /\ \A l \in DOMAIN logs' : logs'[l].main_db_id /= k
                    /\ \A j \in DOMAIN deleg \ {k} :
                          j \in DOMAIN deleg' /\ deleg'[j] = deleg[j]
         ]_vars

\* an application with a delegation record and a log entry has been hard
\* deleted: its log entry is gone, the other application keeps its
\* delegation record
C26_Witness ==
    /\ last.op = "delete"
    /\ last.body = TRUE
    /\ last.success
    /\ last.id \notin DOMAIN main \cup DOMAIN deleg
    /\ nextLogId > 1
    /\ logs = << >>
    /\ DOMAIN deleg /= {}

(* ------------------------ delegation record properties ---------------- *)
\* C27: a deck request with a valid body on the id of an existing
\* application succeeds, because every application has a delegation record.
C27_DeckFindsEveryApplication ==
    [][Handles("deck_single") /\ last'.status /= 422
          /\ last'.id \in DOMAIN main
          => last'.success /\ last'.id \in DOMAIN deleg']_vars

(* ------------------------------ decked properties --------------------- *)
\* a stage actor that is set: not null, not empty and not "N/A"
ActorSet(v) == v /= None /\ v /= S_EMPTY /\ v /= S_NA

\* the step is a successful deck or evaluation
StageSucceeds == \E op \in StageOps : Handles(op) /\ last'.success

\* C28: a successful deck or evaluation with a schema-valid body leaves
\* every decked application decked (so that an application evaluated while
\* decked stays decked).
C28_DeckedMonotonic ==
    [][StageSucceeds =>
          \A k \in DOMAIN deleg :
             ActorSet(deleg[k].DB_EVALUATOR)
                => ActorSet(deleg'[k].DB_EVALUATOR)]_vars

\* C29: for every delegation record the evaluation precondition is_decked,
\* the re-deck check check_if_already_decked and the decked / not_decked
\* listing filters give the same answer.
C29_DeckedTestsAgree ==
    \A k \in DOMAIN deleg :
        /\ is_decked(deleg[k]) <=> check_if_already_decked(deleg[k])
        /\ is_decked(deleg[k]) <=> DeckedFilter(deleg, k)
        /\ DeckedFilter(deleg, k) <=> ~NotDeckedFilter(deleg, k)

(* ------------------------------- trash properties --------------------- *)
\* application k is in the trash
InTrash(k) == k \in DOMAIN main /\ main[k].DB_TRASH /= None

\* C30: a deck or an evaluation leaves the application table, and so every
\* trash marker and trash timestamp, as it is, and succeeds or fails by the
\* delegation record alone, whether the application is in the trash or not.
C30_StagesIgnoreTrash ==
    [][\A op \in StageOps :
         Handles(op) /\ last'.status /= 422 =>
            /\ main' = main
            /\ op = "deck_single" =>
                   /\ last'.success <=> last'.id \in DOMAIN deleg
                   /\ last'.success =>
                          deleg'[last'.id].DB_EVALUATOR = last'.body.evaluator
            /\ op = "evaluate_single" =>
                   /\ last'.success <=>
                          /\ last'.id \in DOMAIN deleg
                          /\ is_decked(deleg[last'.id])
                   /\ last'.success =>
                          deleg'[last'.id].DB_EVALUATOR = last'.body.evaluator
            /\ op = "deck_bulk" /\ last'.status = 200 =>
                   \A k \in Found :
                       deleg'[k].DB_EVALUATOR = last'.body.evaluator
            /\ op = "evaluate_bulk" /\ ~last'.throws =>
                   \A k \in Found :
                       is_decked(deleg[k]) =>
                           deleg'[k].DB_EVALUATOR = last'.body.evaluator
      ]_vars

\* an application in the trash has been evaluated and is still in the trash
C30_Witness ==
    /\ last.op = "evaluate_single"
    /\ last.success
    /\ InTrash(last.id)
    /\ main[last.id].DB_TRASH_DATE_ENCODED /= NoDate
    /\ deleg[last.id].DB_EVALUATOR = last.body.evaluator

====
